---- MODULE Spec2Model ----
(***************************************************************************)
(* deploy-cli: the deployment pipeline of lib/deploy.js (deployProject,    *)
(* checkGitStatus, confirmDeployment, simulateDeployment,                  *)
(* executeDeployment and its sub-stages), the remote session of            *)
(* lib/ssh.js (SSHConnection) and the profile lookup of lib/config.js      *)
(* (loadConfig), as one state machine.                                     *)
(*                                                                         *)
(* One `deploy` run is modelled from the call of deployProject to its      *)
(* return or throw.  Every await / external call of the code is one step;  *)
(* what the outside world answers (git, the operator at a prompt, the      *)
(* remote host) is chosen with \E at the step that asks for it.            *)
(* `log` records, in order, every stage function entered and every         *)
(* external operation the run performed, with its outcome.                 *)
(***************************************************************************)
EXTENDS Integers, Sequences, FiniteSets, TLC

VARIABLES
    req,            \* options of deployProject: env, branch, force, dryRun
    store,          \* servers.yml: whether it exists, and its servers in key order
    pc,             \* position of the run
    config,         \* the profile returned by loadConfig (NoConfig before)
    currentBranch,  \* const currentBranch of checkGitStatus, as captured
    hasUncommittedChanges, \* gitStatus.hasUncommittedChanges as captured
    ssh,            \* the SSHConnection of executeDeployment
    log,            \* stage entries and external operations, in order
    error,          \* the error deployProject throws (NoError while none)
    stream,         \* the remote stream of the log-following mode
    exitCode,       \* the exit status of the process (NoExit while it runs)
    ret             \* what the last call on a session was answered and returned

vars == <<req, store, pc, config, currentBranch, hasUncommittedChanges, ssh, log, error,
          stream, exitCode, ret>>

\* what a deploy run leaves alone: the log stream and the last session call
aux == <<stream, ret>>

(***************************************************************************)
(* Bounds and input sets                                                   *)
(***************************************************************************)
\* longest servers.yml considered (number of server entries)
MaxServers == 2

\* longest sequence of calls made on one session
MaxCalls == 4

\* environment names a caller may pass: the three valid ones and "prod"
EnvNames == {"development", "staging", "production", "prod"}

\* branch names of the working tree and of the request
Branches == {"main", "dev"}

\* server entries a servers.yml may hold: the key and the environment field
ServerEntries ==
    { [name |-> "web-staging", environment |-> "production"],
      [name |-> "api",         environment |-> "staging"] }

\* a profile's per-stage command strings ("" is the empty command) and mode
Profiles ==
    [ buildCommand       : {"", "npm run build"},
      installCommand     : {"", "npm install"},
      buildCommandRemote : {"", "npm run build:prod"},
      restartCommand     : {"", "pm2 restart app"},
      verifyCommand      : {"", "curl -f localhost"},
      uploadType         : {"rsync", "files"} ]

NoConfig == [none |-> TRUE]
NoError  == ""
NoBranch == ""
NoExit   == -1
NoStream == "none"
NoRet    == [op |-> "none"]

\* sequences of distinct entries (object keys are unique), up to MaxServers
RECURSIVE SeqsUpTo(_, _)
SeqsUpTo(S, n) ==
    IF n = 0 THEN { <<>> }
    ELSE LET shorter == SeqsUpTo(S, n - 1)
         IN  shorter \cup
             { Append(s, e) : s \in { t \in shorter : Len(t) = n - 1 }, e \in S }

Distinct(s) == \A i, j \in 1..Len(s) : i # j => s[i].name # s[j].name

Stores ==
    { [exists |-> FALSE, servers |-> <<>>] } \cup
    { [exists |-> TRUE, servers |-> s] :
        s \in { t \in SeqsUpTo(ServerEntries, MaxServers) : Distinct(t) } }

\* the stores a full deploy run is followed from: those of at most one server
\* (which server of a longer store is resolved is followed under LoadSpec)
DeployStores == { st \in Stores : Len(st.servers) <= 1 }

(***************************************************************************)
(* The log                                                                 *)
(***************************************************************************)
EvA(stage, op, arg, ok) == [stage |-> stage, op |-> op, arg |-> arg, ok |-> ok]
Ev(stage, op, ok) == EvA(stage, op, "", ok)
Enter(stage)      == Ev(stage, "enter", TRUE)

\* operations that reach the remote host
RemoteOps == {"connect", "exec", "uploadDirectory", "uploadFiles"}
\* operations that run a command in the local working tree
LocalOps == {"git rev-parse", "git branch", "git status", "git checkout", "git pull",
             "local build"}

Ops(op)       == { i \in 1..Len(log) : log[i].op = op }
StageOps(st)  == { i \in 1..Len(log) : log[i].stage = st /\ log[i].op # "enter" }
Entered(st)   == \E i \in 1..Len(log) : log[i] = Enter(st)
Entries(st)   == { i \in 1..Len(log) : log[i] = Enter(st) }
StageSeq      == LET e == SelectSeq(log, LAMBDA x : x.op = "enter")
                 IN  [i \in 1..Len(e) |-> e[i].stage]

(***************************************************************************)
(* lib/utils.js: validateEnvironment                                       *)
(***************************************************************************)
validEnvs == {"development", "staging", "production"}

\* variant: an abbreviation of a valid name is accepted
ValidEnv_Abbrev(env) == \E v \in validEnvs : \E n \in 1..Len(v) : SubSeq(v, 1, n) = env

ValidEnv(env) == env \in validEnvs

(***************************************************************************)
(* lib/config.js: loadConfig                                               *)
(***************************************************************************)
\* String.prototype.includes
Includes(name, s) ==
    \E i \in 1..(Len(name) - Len(s) + 1) : SubSeq(name, i, i + Len(s) - 1) = s

Matches(entry, env) == Includes(entry.name, env) \/ entry.environment = env

\* variant: the last matching server is taken
FindServer_Last(servers, env) ==
    IF \E i \in 1..Len(servers) : Includes(servers[i].name, env) \/ servers[i].environment = env
    THEN CHOOSE i \in 1..Len(servers) :
            /\ Includes(servers[i].name, env) \/ servers[i].environment = env
            /\ \A j \in (i + 1)..Len(servers) :
                  ~(Includes(servers[j].name, env) \/ servers[j].environment = env)
    ELSE 0

\* index of the first matching server, 0 when none (Array.prototype.find)
FindServer(servers, env) ==
    IF \E i \in 1..Len(servers) : Matches(servers[i], env)
    THEN CHOOSE i \in 1..Len(servers) :
            /\ Matches(servers[i], env)
            /\ \A j \in 1..(i - 1) : ~Matches(servers[j], env)
    ELSE 0

\* the outcome of loadConfig(env): the server whose profile is returned, or
\* the error it throws
LoadConfig(st, env) ==
    IF ~st.exists
    THEN [ok |-> FALSE, idx |-> 0, name |-> "",
          err |-> "config file missing, run config --init"]
    ELSE IF FindServer(st.servers, env) = 0
    THEN [ok |-> FALSE, idx |-> 0, name |-> "",
          err |-> "no server config for environment"]
    ELSE [ok |-> TRUE, idx |-> FindServer(st.servers, env),
          name |-> st.servers[FindServer(st.servers, env)].name, err |-> NoError]

(***************************************************************************)
(* lib/ssh.js: SSHConnection                                               *)
(***************************************************************************)
\* what the remote side answers to a command or a transfer
ExecOutcomes     == {"exit0", "exit1", "throw"}
\* "partial": putDirectory resolves with false after some files failed (they
\* are reported through tick); "throw": the transfer call rejects
TransferOutcomes == {"done", "partial", "throw"}

\* constructor: not connected; connects/disposed count ssh.connect successes
\* and ssh.dispose calls of the underlying NodeSSH
NewSSH == [created |-> TRUE, connected |-> FALSE, connects |-> 0, disposed |-> 0]
NoSSH  == [created |-> FALSE, connected |-> FALSE, connects |-> 0, disposed |-> 0]

\* connect(): connected is set only when the underlying connect resolves
SSHConnect(s, ok) ==
    IF ok THEN [s EXCEPT !.connected = TRUE, !.connects = @ + 1] ELSE s

ConnectError == "SSH connect failed: " \o "network or auth"

\* what the remote side may answer to execCommand: a transport error, or an
\* exit status with the captured stdout and stderr
ExitCodes  == {0, 1, 127}
ExecReplies ==
    { [threw |-> TRUE, code |-> 0, stdout |-> "", stderr |-> ""] } \cup
    [ threw : {FALSE}, code : ExitCodes,
      stdout : {"exists\n", "not_exists\n"}, stderr : {"", "No such file"} ]

\* variant: the exit status is not looked at
SSHExecReply_IgnoresCode(s, reply) ==
    IF ~s.connected
    THEN [ok |-> FALSE, issued |-> FALSE, value |-> "", err |-> "SSH not connected"]
    ELSE IF reply.threw
    THEN [ok |-> FALSE, issued |-> TRUE, value |-> "",
          err |-> "remote command failed: " \o "transport error"]
    ELSE [ok |-> TRUE, issued |-> TRUE, value |-> reply.stdout, err |-> NoError]

\* exec(command) with the remote answer `reply`: ok with the returned stdout,
\* or the error raised; issued tells whether the command reached the remote
SSHExecReply(s, reply) ==
    IF ~s.connected
    THEN [ok |-> FALSE, issued |-> FALSE, value |-> "", err |-> "SSH not connected"]
    ELSE IF reply.threw
    THEN [ok |-> FALSE, issued |-> TRUE, value |-> "",
          err |-> "remote command failed: " \o "transport error"]
    ELSE IF reply.code # 0
    THEN [ok |-> FALSE, issued |-> TRUE, value |-> "",
          err |-> "remote command failed: " \o ("command failed: " \o reply.stderr)]
    ELSE [ok |-> TRUE, issued |-> TRUE, value |-> reply.stdout, err |-> NoError]

\* the answer standing for each class of ExecOutcomes
ExecReply(outcome) ==
    CASE outcome = "exit0" -> [threw |-> FALSE, code |-> 0, stdout |-> "", stderr |-> ""]
      [] outcome = "exit1" -> [threw |-> FALSE, code |-> 1, stdout |-> "", stderr |-> "stderr"]
      [] outcome = "throw" -> [threw |-> TRUE, code |-> 0, stdout |-> "", stderr |-> ""]

\* exec(command) by class of answer, as the deployment stages use it
SSHExec(s, outcome) ==
    LET r == SSHExecReply(s, ExecReply(outcome))
    IN  [ok |-> r.ok, issued |-> r.issued, err |-> r.err]

\* String.prototype.trim, for the white space an echo leaves
IsSpace(c) == c \in {" ", "\n", "\t"}
RECURSIVE Trim(_)
Trim(str) ==
    IF Len(str) = 0 THEN str
    ELSE IF IsSpace(SubSeq(str, 1, 1)) THEN Trim(SubSeq(str, 2, Len(str)))
    ELSE IF IsSpace(SubSeq(str, Len(str), Len(str))) THEN Trim(SubSeq(str, 1, Len(str) - 1))
    ELSE str

\* variant: a failed probe is rethrown, as listFiles does
SSHFileExists_Rethrows(s, reply) ==
    LET r == SSHExecReply(s, reply) IN
    IF r.ok
    THEN [raised |-> FALSE, value |-> Trim(r.value) = "exists", issued |-> r.issued]
    ELSE [raised |-> TRUE, value |-> FALSE, issued |-> r.issued]

\* fileExists(remotePath): the probe through exec, any error caught as false
SSHFileExists(s, reply) ==
    LET r == SSHExecReply(s, reply) IN
    IF r.ok
    THEN [raised |-> FALSE, value |-> Trim(r.value) = "exists", issued |-> r.issued]
    ELSE [raised |-> FALSE, value |-> FALSE, issued |-> r.issued]

\* uploadDirectory(localDir, remoteDir): the value putDirectory resolves with
\* is not looked at, so a transfer with failed files returns normally;
\* complete tells whether every file arrived
SSHUploadDirectory(s, outcome) ==
    IF ~s.connected
    THEN [ok |-> FALSE, issued |-> FALSE, complete |-> FALSE, err |-> "SSH not connected"]
    ELSE IF outcome = "done"
    THEN [ok |-> TRUE, issued |-> TRUE, complete |-> TRUE, err |-> NoError]
    ELSE IF outcome = "partial"
    THEN [ok |-> TRUE, issued |-> TRUE, complete |-> FALSE, err |-> NoError]
    ELSE [ok |-> FALSE, issued |-> TRUE, complete |-> FALSE,
          err |-> "directory upload failed: " \o "transport error"]

\* uploadFiles(files, remoteDir): putFiles rejects when a file fails
SSHUploadFiles(s, outcome) ==
    IF ~s.connected
    THEN [ok |-> FALSE, issued |-> FALSE, complete |-> FALSE, err |-> "SSH not connected"]
    ELSE IF outcome = "done"
    THEN [ok |-> TRUE, issued |-> TRUE, complete |-> TRUE, err |-> NoError]
    ELSE [ok |-> FALSE, issued |-> TRUE, complete |-> FALSE,
          err |-> "batch upload failed: " \o "transport error"]

\* uploadFile(localPath, remotePath): putFile rejects when the transfer fails
SSHUploadFile(s, outcome) ==
    IF ~s.connected
    THEN [ok |-> FALSE, issued |-> FALSE, complete |-> FALSE, err |-> "SSH not connected"]
    ELSE IF outcome = "done"
    THEN [ok |-> TRUE, issued |-> TRUE, complete |-> TRUE, err |-> NoError]
    ELSE [ok |-> FALSE, issued |-> TRUE, complete |-> FALSE,
          err |-> "file upload failed: " \o "transport error"]

\* downloadFile(remotePath, localPath): getFile rejects when the transfer fails
SSHDownloadFile(s, outcome) ==
    IF ~s.connected
    THEN [ok |-> FALSE, issued |-> FALSE, complete |-> FALSE, err |-> "SSH not connected"]
    ELSE IF outcome = "done"
    THEN [ok |-> TRUE, issued |-> TRUE, complete |-> TRUE, err |-> NoError]
    ELSE [ok |-> FALSE, issued |-> TRUE, complete |-> FALSE,
          err |-> "file download failed: " \o "transport error"]

\* variant: downloadFile does not look at the connected flag
SSHTransfer_DownloadUnguarded(op, s, outcome) ==
    CASE op = "uploadFile"      -> SSHUploadFile(s, outcome)
      [] op = "uploadFiles"     -> SSHUploadFiles(s, outcome)
      [] op = "uploadDirectory" -> SSHUploadDirectory(s, outcome)
      [] op = "downloadFile"    -> SSHDownloadFile([s EXCEPT !.connected = TRUE], outcome)

\* the four transfer methods by name
SSHTransfer(op, s, outcome) ==
    CASE op = "uploadFile"      -> SSHUploadFile(s, outcome)
      [] op = "uploadFiles"     -> SSHUploadFiles(s, outcome)
      [] op = "uploadDirectory" -> SSHUploadDirectory(s, outcome)
      [] op = "downloadFile"    -> SSHDownloadFile(s, outcome)

TransferOps == {"uploadFile", "uploadFiles", "uploadDirectory", "downloadFile"}

\* variant: the connected flag is not cleared after the disposal
SSHDisconnect_KeepsFlag(s) ==
    IF s.connected THEN [s EXCEPT !.disposed = @ + 1] ELSE s

\* variant: the connection is disposed whatever the session state
SSHDisconnect_NoGuard(s) == [s EXCEPT !.connected = FALSE, !.disposed = @ + 1]

\* disconnect(): disposes only a connected session
SSHDisconnect(s) ==
    IF s.connected
    THEN [s EXCEPT !.connected = FALSE, !.disposed = @ + 1]
    ELSE s

(***************************************************************************)
(* Initial state: deployProject(options) is called                         *)
(***************************************************************************)
Init ==
    /\ req \in [env : EnvNames, branch : Branches, force : BOOLEAN, dryRun : BOOLEAN]
    /\ store \in DeployStores
    /\ pc = "ValidateEnvironment"
    /\ config = NoConfig
    /\ currentBranch = NoBranch
    /\ hasUncommittedChanges = FALSE
    /\ ssh = NoSSH
    /\ log = <<>>
    /\ error = NoError
    /\ stream = NoStream
    /\ exitCode = NoExit
    /\ ret = NoRet

\* a throw outside executeDeployment: deployProject rejects with err
Fail(err) ==
    /\ pc' = "Failed"
    /\ error' = err

(***************************************************************************)
(* deployProject, stage 1: validateEnvironment(env)                        *)
(***************************************************************************)
ValidateEnvironment ==
    /\ pc = "ValidateEnvironment"
    /\ IF ~ValidEnv(req.env)
       THEN /\ log' = log \o << Enter("ValidateEnvironment"),
                                Ev("ValidateEnvironment", "checkEnv", FALSE) >>
            /\ Fail("invalid environment")
       ELSE \E isRepo \in BOOLEAN :
            /\ log' = log \o << Enter("ValidateEnvironment"),
                                Ev("ValidateEnvironment", "checkEnv", TRUE),
                                Ev("ValidateEnvironment", "git rev-parse", isRepo) >>
            /\ IF isRepo
               THEN pc' = "LoadProfile" /\ error' = error
               ELSE Fail("not a git repository")
    /\ UNCHANGED <<aux, exitCode>>
    /\ UNCHANGED <<req, store, config, currentBranch, hasUncommittedChanges, ssh>>

(***************************************************************************)
(* deployProject, stage 2: loadConfig(env)                                 *)
(* The fields of the matched profile are read from the file at this point. *)
(***************************************************************************)
\* variant: the run goes on after loadConfig threw
AfterLoad_Continues(found) == "CheckRepositoryState"

\* lines 28-34: a throw of loadConfig ends the run before checkGitStatus
AfterLoad(found) == IF found THEN "CheckRepositoryState" ELSE "Failed"

LoadProfile ==
    /\ pc = "LoadProfile"
    /\ LET r == LoadConfig(store, req.env) IN
       /\ log' = log \o << Enter("LoadProfile"),
                           EvA("LoadProfile", "loadConfig", r.name, r.ok) >>
       /\ pc' = AfterLoad(r.ok)
       /\ IF r.ok
          THEN /\ config' \in Profiles
               /\ error' = error
          ELSE /\ config' = config
               /\ error' = r.err
    /\ UNCHANGED <<aux, exitCode>>
    /\ UNCHANGED <<req, store, currentBranch, hasUncommittedChanges, ssh>>

(***************************************************************************)
(* deployProject, stage 3: checkGitStatus(branch, force)                   *)
(***************************************************************************)
\* variant: the prompt does not look at force
NeedsPrompt_IgnoresForce(dirty, force) == dirty

\* line 72: the continuation prompt is shown
NeedsPrompt(dirty, force) == dirty /\ ~force

\* variant: the answer to the continuation prompt is not looked at
ContinueAccepted_Ignored(shouldContinue) == TRUE

\* line 83: the answer to the continuation prompt lets the run go on
ContinueAccepted(shouldContinue) == shouldContinue

\* variant: git checkout is never run
NeedsCheckout_Never(current, target) == FALSE

\* variant: git checkout is run whatever the current branch
NeedsCheckout_Always(current, target) == TRUE

\* line 89: git checkout is run
NeedsCheckout(current, target) == current # target

\* where checkGitStatus goes after the uncommitted-changes check
AfterChangesCheck(current, target) ==
    IF NeedsCheckout(current, target) THEN "GitCheckout" ELSE "GitPull"

\* variant: only force skips the confirmation
NeedsConfirm_ForceOnly(force, dryRun) == ~force

\* line 37: confirmDeployment is called
NeedsConfirm(force, dryRun) == ~force /\ ~dryRun

\* variant: the dry-run test is missing
Branch_AlwaysExecute(dryRun) == "BuildLocal"

\* line 41: simulate or execute
Branch(dryRun) == IF dryRun THEN "SimulateDeployment" ELSE "BuildLocal"

\* where deployProject goes when checkGitStatus returns
AfterGitCheck(force, dryRun) ==
    IF NeedsConfirm(force, dryRun) THEN "ConfirmDeployment" ELSE Branch(dryRun)

\* getCurrentBranch() and getGitStatus(), then the test of line 72
GitCapture ==
    /\ pc = "CheckRepositoryState"
    /\ \/ /\ log' = log \o << Enter("CheckRepositoryState"),
                              Ev("CheckRepositoryState", "git branch", FALSE) >>
          /\ Fail("get current branch failed")
          /\ UNCHANGED <<currentBranch, hasUncommittedChanges>>
       \/ \E b \in Branches :
          /\ currentBranch' = b
          /\ \/ /\ log' = log \o << Enter("CheckRepositoryState"),
                                    Ev("CheckRepositoryState", "git branch", TRUE),
                                    Ev("CheckRepositoryState", "git status", FALSE) >>
                /\ Fail("get git status failed")
                /\ UNCHANGED hasUncommittedChanges
             \/ \E dirty \in BOOLEAN :
                /\ hasUncommittedChanges' = dirty
                /\ log' = log \o << Enter("CheckRepositoryState"),
                                    Ev("CheckRepositoryState", "git branch", TRUE),
                                    Ev("CheckRepositoryState", "git status", TRUE) >>
                /\ pc' = IF NeedsPrompt(dirty, req.force)
                         THEN "UncommittedPrompt"
                         ELSE AfterChangesCheck(b, req.branch)
                /\ error' = error
    /\ UNCHANGED <<aux, exitCode>>
    /\ UNCHANGED <<req, store, config, ssh>>

\* inquirer.prompt "uncommitted changes, continue?" and the test of line 83
UncommittedPrompt ==
    /\ pc = "UncommittedPrompt"
    /\ \E shouldContinue \in BOOLEAN :
       /\ log' = Append(log, Ev("CheckRepositoryState", "promptContinue", shouldContinue))
       /\ IF ContinueAccepted(shouldContinue)
          THEN /\ pc' = AfterChangesCheck(currentBranch, req.branch)
               /\ error' = error
          ELSE Fail("deployment cancelled")
    /\ UNCHANGED <<aux, exitCode>>
    /\ UNCHANGED <<req, store, config, currentBranch, hasUncommittedChanges, ssh>>

\* execSync(git checkout targetBranch)
GitCheckout ==
    /\ pc = "GitCheckout"
    /\ \E ok \in BOOLEAN :
       /\ log' = Append(log, Ev("CheckRepositoryState", "git checkout", ok))
       /\ IF ok
          THEN /\ pc' = "GitPull"
               /\ error' = error
          ELSE Fail("command failed: " \o "git checkout")
    /\ UNCHANGED <<aux, exitCode>>
    /\ UNCHANGED <<req, store, config, currentBranch, hasUncommittedChanges, ssh>>

\* execSync(git pull origin targetBranch); checkGitStatus returns
GitPull ==
    /\ pc = "GitPull"
    /\ \E ok \in BOOLEAN :
       /\ log' = Append(log, Ev("CheckRepositoryState", "git pull", ok))
       /\ IF ok
          THEN /\ pc' = AfterGitCheck(req.force, req.dryRun)
               /\ error' = error
          ELSE Fail("command failed: " \o "git pull")
    /\ UNCHANGED <<aux, exitCode>>
    /\ UNCHANGED <<req, store, config, currentBranch, hasUncommittedChanges, ssh>>

(***************************************************************************)
(* deployProject, stage 4: confirmDeployment(env, branch, config)          *)
(***************************************************************************)
\* line 125: the answer to the confirmation prompt lets the run go on
ConfirmAccepted(confirmed) == confirmed

ConfirmDeployment ==
    /\ pc = "ConfirmDeployment"
    /\ \E confirmed \in BOOLEAN :
       /\ log' = log \o << Enter("ConfirmDeployment"),
                           Ev("ConfirmDeployment", "promptConfirm", confirmed) >>
       /\ IF ConfirmAccepted(confirmed)
          THEN /\ pc' = Branch(req.dryRun)
               /\ error' = error
          ELSE Fail("deployment cancelled")
    /\ UNCHANGED <<aux, exitCode>>
    /\ UNCHANGED <<req, store, config, currentBranch, hasUncommittedChanges, ssh>>

(***************************************************************************)
(* simulateDeployment(config, branch): one step of the loop per action     *)
(***************************************************************************)
\* variant: the last step is missing from the list
steps_NoVerify == << "build", "connect", "backup", "upload", "install", "restart" >>

steps == << "build", "connect", "backup", "upload", "install", "restart", "verify" >>

SimDone == Cardinality(StageOps("SimulateDeployment"))

SimulateDeployment ==
    /\ pc = "SimulateDeployment"
    /\ LET k == SimDone + 1 IN
       /\ log' = (IF k = 1 THEN Append(log, Enter("SimulateDeployment")) ELSE log)
                 \o << EvA("SimulateDeployment", "simulate", steps[k], TRUE) >>
       /\ pc' = IF k = Len(steps) THEN "SimulateDone" ELSE "SimulateDeployment"
    /\ UNCHANGED <<aux, exitCode>>
    /\ UNCHANGED <<req, store, config, currentBranch, hasUncommittedChanges, ssh, error>>

(***************************************************************************)
(* executeDeployment(config, branch, env)                                  *)
(***************************************************************************)
\* the order of the calls in the try block: where a stage that returned goes
AfterStage(stage) ==
    CASE stage = "BuildLocal"            -> "Connect"
      [] stage = "Connect"               -> "BackupMkdir"
      [] stage = "Backup"                -> "UploadMkdir"
      [] stage = "Upload"                -> "InstallCd"
      [] stage = "InstallAndBuildRemote" -> "RestartService"
      [] stage = "RestartService"        -> "Verify"
      [] stage = "Verify"                -> "Finally"

\* variant: the catch block of backupCurrentVersion warns and returns as well
Rethrows_BackupSwallowed(stage) == stage \notin {"Verify", "Backup"}

\* variant: the catch block of verifyDeployment rethrows like the others
Rethrows_All(stage) == TRUE

\* the catch block of a stage function: every one rethrows, except that of
\* verifyDeployment, which warns and returns
Rethrows(stage) == stage # "Verify"

\* an error raised inside a stage function: rethrown to executeDeployment's
\* finally, or swallowed, the stage function then returning normally
Raise(stage, err) ==
    IF Rethrows(stage)
    THEN pc' = "Finally" /\ error' = err
    ELSE pc' = AfterStage(stage) /\ error' = error

\* a remote operation is logged when it reached the remote host
LogRemote(before, r, ev) ==
    log' = log \o before \o (IF r.issued THEN << ev >> ELSE << >>)

\* buildProject(config)
BuildLocal ==
    /\ pc = "BuildLocal"
    /\ IF config.buildCommand # ""
       THEN \E ok \in BOOLEAN :
            /\ log' = log \o << Enter("BuildLocal"), Ev("BuildLocal", "local build", ok) >>
            /\ IF ok
               THEN pc' = AfterStage("BuildLocal") /\ error' = error
               ELSE Raise("BuildLocal", "command failed: " \o config.buildCommand)
       ELSE /\ log' = Append(log, Enter("BuildLocal"))
            /\ pc' = AfterStage("BuildLocal")
            /\ error' = error
    /\ UNCHANGED <<aux, exitCode>>
    /\ UNCHANGED <<req, store, config, currentBranch, hasUncommittedChanges, ssh>>

\* ssh = new SSHConnection(config); await ssh.connect()
Connect ==
    /\ pc = "Connect"
    /\ \E ok \in BOOLEAN :
       /\ ssh' = SSHConnect(NewSSH, ok)
       /\ log' = log \o << Enter("Connect"), Ev("Connect", "connect", ok) >>
       /\ IF ok
          THEN pc' = AfterStage("Connect") /\ error' = error
          ELSE Raise("Connect", ConnectError)
    /\ UNCHANGED <<aux, exitCode>>
    /\ UNCHANGED <<req, store, config, currentBranch, hasUncommittedChanges>>

\* backupCurrentVersion: ssh.exec(mkdir -p backupPath)
BackupMkdir ==
    /\ pc = "BackupMkdir"
    /\ \E o \in ExecOutcomes :
       LET r == SSHExec(ssh, o) IN
       /\ LogRemote(<< Enter("Backup") >>, r, EvA("Backup", "exec", "mkdir backupPath", r.ok))
       /\ IF r.ok
          THEN pc' = "BackupCopy" /\ error' = error
          ELSE Raise("Backup", r.err)
    /\ UNCHANGED <<aux, exitCode>>
    /\ UNCHANGED <<req, store, config, currentBranch, hasUncommittedChanges, ssh>>

\* backupCurrentVersion: ssh.exec(cp -r deployPath backupPath/backup-timestamp)
BackupCopy ==
    /\ pc = "BackupCopy"
    /\ \E o \in ExecOutcomes :
       LET r == SSHExec(ssh, o) IN
       /\ LogRemote(<< >>, r, EvA("Backup", "exec", "cp deployPath", r.ok))
       /\ IF r.ok
          THEN pc' = AfterStage("Backup") /\ error' = error
          ELSE Raise("Backup", r.err)
    /\ UNCHANGED <<aux, exitCode>>
    /\ UNCHANGED <<req, store, config, currentBranch, hasUncommittedChanges, ssh>>

\* uploadFiles: ssh.exec(mkdir -p deployPath)
UploadMkdir ==
    /\ pc = "UploadMkdir"
    /\ \E o \in ExecOutcomes :
       LET r == SSHExec(ssh, o) IN
       /\ LogRemote(<< Enter("Upload") >>, r, EvA("Upload", "exec", "mkdir deployPath", r.ok))
       /\ IF r.ok
          THEN pc' = "UploadTransfer" /\ error' = error
          ELSE Raise("Upload", r.err)
    /\ UNCHANGED <<aux, exitCode>>
    /\ UNCHANGED <<req, store, config, currentBranch, hasUncommittedChanges, ssh>>

\* uploadFiles: ssh.uploadDirectory or ssh.uploadFiles, by config.uploadType
UploadTransfer ==
    /\ pc = "UploadTransfer"
    /\ \E o \in TransferOutcomes :
       LET rsync == config.uploadType = "rsync"
           r == IF rsync THEN SSHUploadDirectory(ssh, o) ELSE SSHUploadFiles(ssh, o)
           op == IF rsync THEN "uploadDirectory" ELSE "uploadFiles"
       IN
       /\ LogRemote(<< >>, r,
                    EvA("Upload", op, IF r.complete THEN "complete" ELSE "incomplete", r.ok))
       /\ IF r.ok
          THEN pc' = AfterStage("Upload") /\ error' = error
          ELSE Raise("Upload", r.err)
    /\ UNCHANGED <<aux, exitCode>>
    /\ UNCHANGED <<req, store, config, currentBranch, hasUncommittedChanges, ssh>>

\* installAndBuild: ssh.exec(cd deployPath)
InstallCd ==
    /\ pc = "InstallCd"
    /\ \E o \in ExecOutcomes :
       LET r == SSHExec(ssh, o) IN
       /\ LogRemote(<< Enter("InstallAndBuildRemote") >>, r,
                    EvA("InstallAndBuildRemote", "exec", "cd deployPath", r.ok))
       /\ IF r.ok
          THEN pc' = "InstallCommand" /\ error' = error
          ELSE Raise("InstallAndBuildRemote", r.err)
    /\ UNCHANGED <<aux, exitCode>>
    /\ UNCHANGED <<req, store, config, currentBranch, hasUncommittedChanges, ssh>>

\* installAndBuild: if (config.installCommand) ssh.exec(cd deployPath && install)
InstallCommand ==
    /\ pc = "InstallCommand"
    /\ IF config.installCommand # ""
       THEN \E o \in ExecOutcomes :
            LET r == SSHExec(ssh, o) IN
            /\ LogRemote(<< >>, r, EvA("InstallAndBuildRemote", "exec", "install", r.ok))
            /\ IF r.ok
               THEN pc' = "BuildRemote" /\ error' = error
               ELSE Raise("InstallAndBuildRemote", r.err)
       ELSE /\ pc' = "BuildRemote"
            /\ UNCHANGED <<log, error>>
    /\ UNCHANGED <<aux, exitCode>>
    /\ UNCHANGED <<req, store, config, currentBranch, hasUncommittedChanges, ssh>>

\* installAndBuild: if (config.buildCommandRemote) ssh.exec(cd deployPath && build)
BuildRemote ==
    /\ pc = "BuildRemote"
    /\ IF config.buildCommandRemote # ""
       THEN \E o \in ExecOutcomes :
            LET r == SSHExec(ssh, o) IN
            /\ LogRemote(<< >>, r, EvA("InstallAndBuildRemote", "exec", "build", r.ok))
            /\ IF r.ok
               THEN pc' = AfterStage("InstallAndBuildRemote") /\ error' = error
               ELSE Raise("InstallAndBuildRemote", r.err)
       ELSE /\ pc' = AfterStage("InstallAndBuildRemote")
            /\ UNCHANGED <<log, error>>
    /\ UNCHANGED <<aux, exitCode>>
    /\ UNCHANGED <<req, store, config, currentBranch, hasUncommittedChanges, ssh>>

\* variant: restartService returns as soon as the command has succeeded
AfterRestartCommand_NoWait == "Verify"

\* lines 289-292: after the restart command the settle wait comes next
AfterRestartCommand == "Settle"

\* restartService: return at once without a command, else ssh.exec(restartCommand)
RestartService ==
    /\ pc = "RestartService"
    /\ IF config.restartCommand # ""
       THEN \E o \in ExecOutcomes :
            LET r == SSHExec(ssh, o) IN
            /\ LogRemote(<< Enter("RestartService") >>, r,
                         EvA("RestartService", "exec", "restart", r.ok))
            /\ IF r.ok
               THEN pc' = AfterRestartCommand /\ error' = error
               ELSE Raise("RestartService", r.err)
       ELSE /\ log' = Append(log, Enter("RestartService"))
            /\ pc' = AfterStage("RestartService")
            /\ error' = error
    /\ UNCHANGED <<aux, exitCode>>
    /\ UNCHANGED <<req, store, config, currentBranch, hasUncommittedChanges, ssh>>

\* restartService: the wait for the service to start, in milliseconds
SettleMs == 3000

Settle ==
    /\ pc = "Settle"
    /\ log' = Append(log, EvA("RestartService", "wait", "settle", SettleMs > 0))
    /\ pc' = AfterStage("RestartService")
    /\ UNCHANGED <<aux, exitCode>>
    /\ UNCHANGED <<req, store, config, currentBranch, hasUncommittedChanges, ssh, error>>

\* verifyDeployment: if (config.verifyCommand) ssh.exec(verifyCommand)
Verify ==
    /\ pc = "Verify"
    /\ IF config.verifyCommand # ""
       THEN \E o \in ExecOutcomes :
            LET r == SSHExec(ssh, o) IN
            /\ LogRemote(<< Enter("Verify") >>, r, EvA("Verify", "exec", "verify", r.ok))
            /\ IF r.ok
               THEN pc' = AfterStage("Verify") /\ error' = error
               ELSE Raise("Verify", r.err)
       ELSE /\ log' = Append(log, Enter("Verify"))
            /\ pc' = AfterStage("Verify")
            /\ error' = error
    /\ UNCHANGED <<aux, exitCode>>
    /\ UNCHANGED <<req, store, config, currentBranch, hasUncommittedChanges, ssh>>

\* variant: the disconnect sits at the end of the try block, not in a finally
Finally_NoCleanupOnError ==
    /\ pc = "Finally"
    /\ ssh' = IF ssh.created /\ error = NoError THEN SSHDisconnect(ssh) ELSE ssh
    /\ pc' = IF error # NoError THEN "Failed" ELSE "Complete"
    /\ UNCHANGED <<aux, exitCode>>
    /\ UNCHANGED <<req, store, config, currentBranch, hasUncommittedChanges, log, error>>

\* variant: the error of the try block is lost once the cleanup has run
Finally_SwallowsError ==
    /\ pc = "Finally"
    /\ ssh' = IF ssh.created THEN SSHDisconnect(ssh) ELSE ssh
    /\ pc' = "Complete"
    /\ UNCHANGED <<aux, exitCode>>
    /\ UNCHANGED <<req, store, config, currentBranch, hasUncommittedChanges, log, error>>

\* finally { if (ssh) await ssh.disconnect() }, then executeDeployment returns
\* or rethrows; deployProject reports completion when it returned
Finally ==
    /\ pc = "Finally"
    /\ ssh' = IF ssh.created THEN SSHDisconnect(ssh) ELSE ssh
    /\ pc' = IF error # NoError THEN "Failed" ELSE "Complete"
    /\ UNCHANGED <<aux, exitCode>>
    /\ UNCHANGED <<req, store, config, currentBranch, hasUncommittedChanges, log, error>>

(***************************************************************************)
(* bin: the action handler of the deploy command                           *)
(***************************************************************************)
\* catch { process.exit(1) } when deployProject threw; else the handler
\* returns and the process ends by itself
DeployExitCode(outcome) == IF outcome = "Failed" THEN 1 ELSE 0

DeployExit ==
    /\ pc \in {"Complete", "SimulateDone", "Failed"}
    /\ exitCode = NoExit
    /\ exitCode' = DeployExitCode(pc)
    /\ UNCHANGED <<req, store, pc, config, currentBranch, hasUncommittedChanges, ssh,
                   log, error, aux>>

Next ==
    \/ ValidateEnvironment
    \/ LoadProfile
    \/ GitCapture
    \/ UncommittedPrompt
    \/ GitCheckout
    \/ GitPull
    \/ ConfirmDeployment
    \/ SimulateDeployment
    \/ BuildLocal
    \/ Connect
    \/ BackupMkdir
    \/ BackupCopy
    \/ UploadMkdir
    \/ UploadTransfer
    \/ InstallCd
    \/ InstallCommand
    \/ BuildRemote
    \/ RestartService
    \/ Settle
    \/ Verify
    \/ Finally
    \/ DeployExit

Spec == Init /\ [][Next]_vars

(***************************************************************************)
(* One SSHConnection under any sequence of calls                           *)
(***************************************************************************)
SessionInit ==
    /\ req = [env |-> "staging"]
    /\ store = [exists |-> FALSE, servers |-> <<>>]
    /\ pc = "Session"
    /\ config = NoConfig
    /\ currentBranch = NoBranch
    /\ hasUncommittedChanges = FALSE
    /\ ssh = NewSSH
    /\ log = <<>>
    /\ error = NoError
    /\ stream = NoStream
    /\ exitCode = NoExit
    /\ ret = NoRet

SessionFrame ==
    UNCHANGED <<req, store, pc, config, currentBranch, hasUncommittedChanges, error,
                stream, exitCode>>

\* await ssh.connect()
SessionConnect ==
    /\ pc = "Session" /\ Len(log) < MaxCalls
    /\ \E ok \in BOOLEAN :
       /\ ssh' = SSHConnect(ssh, ok)
       /\ ret' = [op |-> "connect", wasConnected |-> ssh.connected, raised |-> ~ok]
       /\ log' = Append(log, Ev("Session", "connect", ok))
    /\ SessionFrame

\* await ssh.disconnect()
SessionDisconnect ==
    /\ pc = "Session" /\ Len(log) < MaxCalls
    /\ ssh' = SSHDisconnect(ssh)
    /\ ret' = [op |-> "disconnect", wasConnected |-> ssh.connected, raised |-> FALSE,
               disposedNow |-> ssh'.disposed - ssh.disposed]
    /\ log' = Append(log, Ev("Session", "disconnect", TRUE))
    /\ SessionFrame

\* await ssh.exec(command)
SessionExec ==
    /\ pc = "Session" /\ Len(log) < MaxCalls
    /\ \E reply \in ExecReplies :
       LET r == SSHExecReply(ssh, reply) IN
       /\ ret' = [op |-> "exec", wasConnected |-> ssh.connected, reply |-> reply,
                  raised |-> ~r.ok, value |-> r.value, err |-> r.err, issued |-> r.issued]
       /\ log' = Append(log, Ev("Session", "exec", r.ok))
    /\ ssh' = ssh
    /\ SessionFrame

\* await ssh.fileExists(remotePath)
SessionFileExists ==
    /\ pc = "Session" /\ Len(log) < MaxCalls
    /\ \E reply \in ExecReplies :
       LET r == SSHFileExists(ssh, reply) IN
       /\ ret' = [op |-> "fileExists", wasConnected |-> ssh.connected, reply |-> reply,
                  raised |-> r.raised, value |-> r.value, issued |-> r.issued]
       /\ log' = Append(log, Ev("Session", "fileExists", ~r.raised))
    /\ ssh' = ssh
    /\ SessionFrame

\* await ssh.uploadFile / uploadFiles / uploadDirectory / downloadFile
SessionTransfer ==
    /\ pc = "Session" /\ Len(log) < MaxCalls
    /\ \E op \in TransferOps, outcome \in TransferOutcomes :
       LET r == SSHTransfer(op, ssh, outcome) IN
       /\ ret' = [op |-> op, wasConnected |-> ssh.connected, raised |-> ~r.ok,
                  err |-> r.err, issued |-> r.issued]
       /\ log' = Append(log, Ev("Session", op, r.ok))
    /\ ssh' = ssh
    /\ SessionFrame

SessionNext ==
    \/ SessionConnect
    \/ SessionDisconnect
    \/ SessionExec
    \/ SessionFileExists
    \/ SessionTransfer

SessionSpec == SessionInit /\ [][SessionNext]_vars

\* an SSHConnection used by any caller, or the one owned by a deploy run
SessionOrDeployInit == SessionInit \/ Init

SessionOrDeployNext == SessionNext \/ Next

SessionOrDeploySpec == SessionOrDeployInit /\ [][SessionOrDeployNext]_vars

(***************************************************************************)
(* The logs command: showLogs(options) and the process around it           *)
(***************************************************************************)
\* the candidate log files, in the order they are probed
LogPaths == << "deployPath/logs/app.log", "deployPath/app.log",
               "/var/log/nginx/access.log", "/var/log/nginx/error.log" >>

LogsInit ==
    /\ req \in [env : EnvNames, follow : BOOLEAN]
    /\ store \in DeployStores
    /\ pc = "LogsLoad"
    /\ config = NoConfig
    /\ currentBranch = NoBranch
    /\ hasUncommittedChanges = FALSE
    /\ ssh = NoSSH
    /\ log = <<>>
    /\ error = NoError
    /\ stream = NoStream
    /\ exitCode = NoExit
    /\ ret = NoRet

LogsFrame == UNCHANGED <<req, store, currentBranch, hasUncommittedChanges>>

\* the catch of showLogs: the message is printed and showLogs returns
LogsCaught(err) ==
    /\ pc' = "LogsReturned"
    /\ error' = err

\* const config = await loadConfig(env)
LogsLoad ==
    /\ pc = "LogsLoad"
    /\ LET r == LoadConfig(store, req.env) IN
       /\ log' = Append(log, EvA("showLogs", "loadConfig", r.name, r.ok))
       /\ IF r.ok
          THEN /\ config' = [name |-> r.name]
               /\ pc' = "LogsConnect"
               /\ error' = error
          ELSE /\ config' = config
               /\ LogsCaught(r.err)
    /\ UNCHANGED <<ssh, stream, exitCode, ret>>
    /\ LogsFrame

\* const ssh = new SSHConnection(config); await ssh.connect()
LogsConnect ==
    /\ pc = "LogsConnect"
    /\ \E ok \in BOOLEAN :
       /\ ssh' = SSHConnect(NewSSH, ok)
       /\ log' = Append(log, Ev("showLogs", "connect", ok))
       /\ IF ok
          THEN /\ pc' = "LogsProbe"
               /\ ret' = [op |-> "probe", k |-> 1, logPath |-> ""]
               /\ error' = error
          ELSE /\ LogsCaught(ConnectError)
               /\ ret' = ret
    /\ UNCHANGED <<config, stream, exitCode>>
    /\ LogsFrame

\* one turn of the loop over logPaths; after the last path without a hit
\* the session is disconnected and showLogs returns
LogsProbe ==
    /\ pc = "LogsProbe"
    /\ \E reply \in ExecReplies :
       LET found == SSHFileExists(ssh, reply).value IN
       /\ log' = IF ~found /\ ret.k = Len(LogPaths)
                 THEN log \o << EvA("showLogs", "fileExists", LogPaths[ret.k], found),
                                Ev("showLogs", "disconnect", TRUE) >>
                 ELSE Append(log, EvA("showLogs", "fileExists", LogPaths[ret.k], found))
       /\ IF found
          THEN /\ ret' = [ret EXCEPT !.logPath = LogPaths[ret.k]]
               /\ pc' = IF req.follow THEN "LogsRequestExec" ELSE "LogsExec"
               /\ ssh' = ssh
          ELSE IF ret.k < Len(LogPaths)
          THEN /\ ret' = [ret EXCEPT !.k = @ + 1]
               /\ pc' = "LogsProbe"
               /\ ssh' = ssh
          ELSE /\ ret' = ret
               /\ pc' = "LogsReturned"
               /\ ssh' = SSHDisconnect(ssh)
    /\ UNCHANGED <<config, error, stream, exitCode>>
    /\ LogsFrame

\* not following: const logs = await ssh.exec(logCommand); await ssh.disconnect()
LogsExec ==
    /\ pc = "LogsExec"
    /\ \E outcome \in ExecOutcomes :
       LET r == SSHExec(ssh, outcome) IN
       IF r.ok
       THEN /\ log' = log \o << EvA("showLogs", "exec", ret.logPath, TRUE),
                               Ev("showLogs", "disconnect", TRUE) >>
            /\ ssh' = SSHDisconnect(ssh)
            /\ pc' = "LogsReturned"
            /\ error' = error
       ELSE /\ log' = Append(log, EvA("showLogs", "exec", ret.logPath, FALSE))
            /\ ssh' = ssh
            /\ LogsCaught(r.err)
    /\ UNCHANGED <<config, stream, exitCode, ret>>
    /\ LogsFrame

\* following: const stream = await ssh.ssh.requestExec(logCommand), then the
\* close and SIGINT handlers are registered and showLogs returns
LogsRequestExec ==
    /\ pc = "LogsRequestExec"
    /\ \E ok \in BOOLEAN :
       /\ log' = Append(log, EvA("showLogs", "requestExec", ret.logPath, ok))
       /\ IF ok
          THEN /\ stream' = "open"
               /\ pc' = "Following"
               /\ error' = error
          ELSE /\ stream' = stream
               /\ LogsCaught("requestExec failed")
    /\ UNCHANGED <<config, ssh, exitCode, ret>>
    /\ LogsFrame

\* variant: the close handler leaves the session alone
OnStreamClose_Nothing(s) == s

\* stream.on('close', ...): the handler disconnects the session
OnStreamClose(s) == SSHDisconnect(s)

\* the remote stream closes by itself
StreamClose ==
    /\ pc = "Following" /\ stream = "open"
    /\ stream' = "closed"
    /\ ssh' = OnStreamClose(ssh)
    /\ log' = log \o << Ev("close", "stream closed", TRUE), Ev("close", "disconnect", TRUE) >>
    /\ UNCHANGED <<pc, config, error, exitCode, ret>>
    /\ LogsFrame

\* process.on('SIGINT', ...): stream.close(), ssh.disconnect(), process.exit(0);
\* closing an open stream may run the close handler at once or not before
\* the exit
Sigint ==
    /\ pc = "Following"
    /\ \E sync \in BOOLEAN :
       /\ sync => stream = "open"
       /\ stream' = "closed"
       /\ ssh' = SSHDisconnect(IF sync THEN OnStreamClose(ssh) ELSE ssh)
       /\ log' = log \o << Ev("SIGINT", "stream.close", TRUE) >>
                     \o (IF sync THEN << Ev("close", "disconnect", TRUE) >> ELSE << >>)
                     \o << Ev("SIGINT", "disconnect", TRUE), Ev("SIGINT", "exit", TRUE) >>
    /\ exitCode' = 0
    /\ pc' = "Exited"
    /\ UNCHANGED <<config, error, ret>>
    /\ LogsFrame

\* the CLI action has returned and nothing keeps the process alive: no exit
\* status was set, the process ends with 0
LogsExit ==
    /\ \/ pc = "LogsReturned"
       \/ pc = "Following" /\ stream = "closed"
    /\ ~ssh.connected
    /\ exitCode' = 0
    /\ pc' = "Exited"
    /\ UNCHANGED <<config, ssh, log, error, stream, ret>>
    /\ LogsFrame

LogsNext ==
    \/ LogsLoad
    \/ LogsConnect
    \/ LogsProbe
    \/ LogsExec
    \/ LogsRequestExec
    \/ StreamClose
    \/ Sigint
    \/ LogsExit

LogsSpec == LogsInit /\ [][LogsNext]_vars

(***************************************************************************)
(* lib/config.js: the config command (addServer, removeServer)             *)
(***************************************************************************)
\* a field that is absent from a profile
Undefined == "<undefined>"

ServerNames == {"web-staging", "api", "db"}
AuthTypes   == {"password", "privateKey"}
Passwords   == {"", "secret"}
\* what reading the private-key file may meet
KeyReads    == {"content", "missing", "error"}

\* a stored server: the key of servers.yml with the fields of its profile
Entry(name, cfg) ==
    [name |-> name, environment |-> cfg.environment,
     password |-> cfg.password, privateKey |-> cfg.privateKey]

\* the profile part of a stored server
Cfg(entry) ==
    [environment |-> entry.environment, password |-> entry.password,
     privateKey |-> entry.privateKey]

\* the stores the config command starts from: every server holds a password
ConfigStores ==
    { [exists |-> st.exists,
       servers |-> [i \in 1..Len(st.servers) |->
                      Entry(st.servers[i].name,
                            [environment |-> st.servers[i].environment,
                             password |-> "secret", privateKey |-> Undefined])]] :
      st \in Stores }

\* readPrivateKey(keyPath): the content, or undefined when the file is
\* missing or cannot be read
ReadPrivateKey(keyRead) == IF keyRead = "content" THEN "KEY" ELSE Undefined

\* finalConfig of addServer: the password answer exists only for password
\* authentication, privateKey is read only for key authentication
FinalConfig(authType, password, keyRead) ==
    [environment |-> Undefined,
     password    |-> IF authType = "password" THEN password ELSE Undefined,
     privateKey  |-> IF authType = "privateKey" THEN ReadPrivateKey(keyRead) ELSE Undefined]

IndexOf(servers, name) ==
    IF \E i \in 1..Len(servers) : servers[i].name = name
    THEN CHOOSE i \in 1..Len(servers) : servers[i].name = name
    ELSE 0

\* variant: the file is written anew with the one server
SaveServerConfig_FreshFile(st, name, cfg) ==
    [exists |-> TRUE, servers |-> << Entry(name, cfg) >>]

\* saveServerConfig(serverName, config): servers.servers[serverName] = config
SaveServerConfig(st, name, cfg) ==
    LET servers == IF st.exists THEN st.servers ELSE << >>
        i       == IndexOf(servers, name)
    IN  [exists  |-> TRUE,
         servers |-> IF i = 0 THEN Append(servers, Entry(name, cfg))
                     ELSE [servers EXCEPT ![i] = Entry(name, cfg)]]

\* removeServer reaches its confirmation prompt
RemovePrompted(st, name) == st.exists /\ IndexOf(st.servers, name) # 0

\* removeServer(serverName) with the operator's answer
RemoveServer(st, name, confirmed) ==
    IF RemovePrompted(st, name) /\ confirmed
    THEN [st EXCEPT !.servers = SelectSeq(st.servers, LAMBDA e : e.name # name)]
    ELSE st

\* longest sequence of config commands followed
MaxCommands == 2

ConfigInit ==
    /\ req = [cmd |-> "config"]
    /\ store \in ConfigStores
    /\ pc = "Config"
    /\ config = NoConfig
    /\ currentBranch = NoBranch
    /\ hasUncommittedChanges = FALSE
    /\ ssh = NoSSH
    /\ log = <<>>
    /\ error = NoError
    /\ stream = NoStream
    /\ exitCode = NoExit
    /\ ret = NoRet

ConfigFrame ==
    UNCHANGED <<req, pc, config, currentBranch, hasUncommittedChanges, ssh, stream>>

\* the catch of the config action: process.exit(1); otherwise the process
\* ends by itself with status 0
ConfigExitCode(threw) == IF threw THEN 1 ELSE 0

\* addServer(serverName): the prompts, readPrivateKey, saveServerConfig
\* and the optional connection test (whose failure is only printed)
AddServer ==
    /\ \E name \in ServerNames, authType \in AuthTypes, password \in Passwords,
          keyRead \in KeyReads, written \in BOOLEAN, test \in {"skipped", "ok", "failed"} :
       LET cfg == FinalConfig(authType, password, keyRead) IN
       /\ authType = "password" => keyRead = "content"
       /\ authType = "privateKey" => password = ""
       /\ ~written => test = "skipped"
       /\ store' = IF written THEN SaveServerConfig(store, name, cfg) ELSE store
       /\ ret' = [op |-> "addServer", name |-> name, authType |-> authType,
                  keyRead |-> keyRead, cfg |-> cfg, before |-> store,
                  saved |-> written, test |-> test]
       /\ log' = Append(log, EvA("config", "addServer", name, written))
       /\ error' = IF written THEN NoError ELSE "write failed"
       /\ exitCode' = ConfigExitCode(~written)

\* config --add-server <name>
ConfigAddServer ==
    /\ pc = "Config" /\ Len(log) < MaxCommands
    /\ AddServer
    /\ ConfigFrame

\* variant: an existing servers.yml is kept
InitStore_KeepsExisting(st) ==
    IF st.exists THEN st ELSE [exists |-> TRUE, servers |-> << >>]

\* initConfig: servers.yml is written with defaultServers = { servers: {} }
InitStore(st) == [exists |-> TRUE, servers |-> << >>]

ConfigFrameInit ==
    UNCHANGED <<req, config, currentBranch, hasUncommittedChanges, ssh, stream>>

\* config --init, up to the question whether to add a first server:
\* ensureDir and the two writeFile calls
ConfigInitConfig ==
    /\ pc = "Config" /\ Len(log) < MaxCommands
    /\ \E written \in BOOLEAN :
       /\ store' = IF written THEN InitStore(store) ELSE store
       /\ ret' = [op |-> "initConfig", before |-> store, saved |-> written]
       /\ log' = Append(log, EvA("config", "initConfig", "", written))
       /\ error' = IF written THEN NoError ELSE "write failed"
       /\ exitCode' = IF written THEN NoExit ELSE ConfigExitCode(TRUE)
       /\ pc' = IF written THEN "InitPrompt" ELSE "Config"
    /\ ConfigFrameInit

\* config --init, the answer to addFirstServer: this.addServer() or nothing
ConfigInitAddFirst ==
    /\ pc = "InitPrompt"
    /\ \E addFirstServer \in BOOLEAN :
       IF addFirstServer
       THEN AddServer
       ELSE /\ exitCode' = ConfigExitCode(FALSE)
            /\ UNCHANGED <<store, ret, log, error>>
    /\ pc' = "Config"
    /\ ConfigFrameInit

\* config --remove <name>
ConfigRemoveServer ==
    /\ pc = "Config" /\ Len(log) < MaxCommands
    /\ \E name \in ServerNames, confirmed \in BOOLEAN, written \in BOOLEAN :
       LET prompted == RemovePrompted(store, name) IN
       /\ ~prompted => (~confirmed /\ written)
       /\ ~confirmed => written
       /\ store' = IF written THEN RemoveServer(store, name, confirmed) ELSE store
       /\ ret' = [op |-> "removeServer", name |-> name, prompted |-> prompted,
                  confirmed |-> confirmed, before |-> store, saved |-> written]
       /\ log' = Append(log, EvA("config", "removeServer", name, written))
       /\ error' = IF written THEN NoError ELSE "write failed"
       /\ exitCode' = ConfigExitCode(~written)
    /\ ConfigFrame

ConfigNext ==
    \/ ConfigAddServer
    \/ ConfigRemoveServer
    \/ ConfigInitConfig
    \/ ConfigInitAddFirst

ConfigSpec == ConfigInit /\ [][ConfigNext]_vars

(***************************************************************************)
(* lib/ssh.js: the validate option of uploadDirectory                      *)
(***************************************************************************)
\* names an item of the local tree may have
Components == {"dist", "index.html", ".env", ".git", ".gitignore", "node_modules",
               "node_modules.bak", "a.git", "."}

\* deepest item path considered (number of components)
MaxDepth == 2

RECURSIVE Join(_)
Join(parts) ==
    IF Len(parts) = 1 THEN parts[1]
    ELSE parts[1] \o "/" \o Join(SubSeq(parts, 2, Len(parts)))

ItemPaths == { t \in SeqsUpTo(Components, MaxDepth) : Len(t) >= 1 }

\* path.basename(itemPath): what follows the last separator
RECURSIVE Basename(_)
Basename(itemPath) ==
    IF \E i \in 1..Len(itemPath) : SubSeq(itemPath, i, i) = "/"
    THEN LET i == CHOOSE k \in 1..Len(itemPath) : SubSeq(itemPath, k, k) = "/"
         IN  Basename(SubSeq(itemPath, i + 1, Len(itemPath)))
    ELSE itemPath

\* String.prototype.substr(0, 1)
Substr01(str) == IF Len(str) = 0 THEN "" ELSE SubSeq(str, 1, 1)

\* variant: only the two literal names are rejected
Validate_NamesOnly(itemPath) ==
    LET baseName == Basename(itemPath)
    IN  baseName # "node_modules" /\ baseName # ".git"

\* validate(itemPath): TRUE when the item is transferred
Validate(itemPath) ==
    LET baseName == Basename(itemPath)
    IN  Substr01(baseName) # "." /\ baseName # "node_modules" /\ baseName # ".git"

ValidateInit ==
    /\ \E parts \in ItemPaths : req = [parts |-> parts, itemPath |-> Join(parts)]
    /\ store = [exists |-> FALSE, servers |-> <<>>]
    /\ pc = "Validate"
    /\ config = NoConfig
    /\ currentBranch = NoBranch
    /\ hasUncommittedChanges = FALSE
    /\ ssh = NoSSH
    /\ log = <<>>
    /\ error = NoError
    /\ stream = NoStream
    /\ exitCode = NoExit
    /\ ret = NoRet

\* putDirectory asks validate about one item
ValidateItem ==
    /\ pc = "Validate"
    /\ ret' = [op |-> "validate", accepted |-> Validate(req.itemPath)]
    /\ pc' = "Validated"
    /\ UNCHANGED <<req, store, config, currentBranch, hasUncommittedChanges, ssh, log,
                   error, stream, exitCode>>

ValidateNext == ValidateItem

ValidateSpec == ValidateInit /\ [][ValidateNext]_vars

(***************************************************************************)
(* The status command: showStatus(env), getDeployInfo, getServiceStatus    *)
(***************************************************************************)
\* deployInfo = {}: no field is set
NoInfo == [lastDeploy |-> Undefined, currentVersion |-> Undefined, deployedBy |-> Undefined]

\* what `cat .deploy-info` may print
MarkerContents == {"not json", "marker json"}
\* what `cat package.json` may print
PackageContents == {"not json", "package json", "package json without version"}

\* JSON.parse(content): the parsed object, or a SyntaxError
JsonParse(content) ==
    CASE content = "marker json" ->
            [ok |-> TRUE, value |-> [lastDeploy |-> "2024-01-01T00:00:00Z",
                                     currentVersion |-> "1.2.3", deployedBy |-> "ci"]]
      [] content = "package json" ->
            [ok |-> TRUE, value |-> [version |-> "2.0.0"]]
      [] content = "package json without version" ->
            [ok |-> TRUE, value |-> [version |-> Undefined]]
      [] OTHER -> [ok |-> FALSE, value |-> NoInfo]

\* line 484: deployInfo = JSON.parse(content), inside try/catch. deployInfo
\* is declared const, so after a successful parse the assignment throws a
\* TypeError; it is swallowed by the same catch as a parse error
AssignMarker(info, content) == info

\* the system queries of getSystemInfo and the probes of getServiceStatus
SystemQueries == <<"hostname", "uname -a", "free -h", "df -h">>
ServiceProbes == <<"is-active nginx", "is-active apache2", "is-active pm2", "pm2 jlist">>

\* the log entries of a group of exec calls, those in failed having failed
ExecEntries(stage, cmds, failed) ==
    [i \in 1..Len(cmds) |-> EvA(stage, "exec", cmds[i], cmds[i] \notin failed)]

Range(q) == { q[i] : i \in 1..Len(q) }

StatusInit ==
    /\ req \in [env : EnvNames]
    /\ store \in DeployStores
    /\ pc = "StatusLoad"
    /\ config = NoConfig
    /\ currentBranch = NoBranch
    /\ hasUncommittedChanges = FALSE
    /\ ssh = NoSSH
    /\ log = <<>>
    /\ error = NoError
    /\ stream = NoStream
    /\ exitCode = NoExit
    /\ ret = NoRet

StatusFrame == UNCHANGED <<req, store, currentBranch, hasUncommittedChanges, stream>>

\* the catch of showStatus: the message is printed and showStatus returns
StatusCaught(err) ==
    /\ pc' = "StatusReturned"
    /\ error' = err

\* const config = await loadConfig(env)
StatusLoad ==
    /\ pc = "StatusLoad"
    /\ LET r == LoadConfig(store, req.env) IN
       /\ log' = Append(log, EvA("showStatus", "loadConfig", r.name, r.ok))
       /\ IF r.ok
          THEN /\ config' = [name |-> r.name]
               /\ pc' = "StatusConnect"
               /\ error' = error
          ELSE /\ config' = config
               /\ StatusCaught(r.err)
    /\ UNCHANGED <<ssh, exitCode, ret>>
    /\ StatusFrame

\* const ssh = new SSHConnection(config); await ssh.connect()
StatusConnect ==
    /\ pc = "StatusConnect"
    /\ \E ok \in BOOLEAN :
       /\ ssh' = SSHConnect(NewSSH, ok)
       /\ log' = Append(log, Ev("showStatus", "connect", ok))
       /\ IF ok
          THEN pc' = "SystemInfo" /\ error' = error
          ELSE StatusCaught(ConnectError)
    /\ UNCHANGED <<config, exitCode, ret>>
    /\ StatusFrame

\* await ssh.getSystemInfo(): four exec calls under Promise.all, which
\* rejects when any of them fails
SystemInfo ==
    /\ pc = "SystemInfo"
    /\ \E failed \in SUBSET Range(SystemQueries) :
       /\ log' = log \o ExecEntries("getSystemInfo", SystemQueries, failed)
       /\ IF failed = {}
          THEN pc' = "MarkerProbe" /\ error' = error
          ELSE StatusCaught("get system info failed: " \o "remote command failed")
    /\ ret' = [op |-> "getDeployInfo", info |-> NoInfo, marker |-> "unread",
               returned |-> FALSE]
    /\ UNCHANGED <<config, ssh, exitCode>>
    /\ StatusFrame

\* getDeployInfo: if (await ssh.fileExists(deployMarkFile))
MarkerProbe ==
    /\ pc = "MarkerProbe"
    /\ \E reply \in ExecReplies :
       LET found == SSHFileExists(ssh, reply).value IN
       /\ log' = Append(log, EvA("getDeployInfo", "fileExists", ".deploy-info", found))
       /\ pc' = IF found THEN "MarkerRead" ELSE "StatProbe"
    /\ UNCHANGED <<config, ssh, error, exitCode, ret>>
    /\ StatusFrame

\* getDeployInfo: content = await ssh.exec(cat marker), then the parse; a
\* failed cat leaves through the outer catch, which returns {}
MarkerRead ==
    /\ pc = "MarkerRead"
    /\ \E o \in ExecOutcomes, content \in MarkerContents :
       LET r == SSHExec(ssh, o) IN
       /\ ~r.ok => content = "not json"
       /\ log' = Append(log, EvA("getDeployInfo", "exec", "cat .deploy-info", r.ok))
       /\ IF r.ok
          THEN /\ ret' = [ret EXCEPT !.info = AssignMarker(ret.info, content),
                                     !.marker = content]
               /\ pc' = "StatProbe"
          ELSE /\ ret' = [ret EXCEPT !.info = NoInfo, !.returned = TRUE]
               /\ pc' = "ServiceStatus"
    /\ UNCHANGED <<config, ssh, error, exitCode>>
    /\ StatusFrame

\* getDeployInfo: lastModified = await ssh.exec(stat -c %y deployPath)
StatProbe ==
    /\ pc = "StatProbe"
    /\ \E o \in ExecOutcomes :
       LET r == SSHExecReply(ssh, [ExecReply(o) EXCEPT !.stdout = "2024-05-01 10:00:00\n"]) IN
       /\ log' = Append(log, EvA("getDeployInfo", "exec", "stat deployPath", r.ok))
       /\ ret' = IF r.ok THEN [ret EXCEPT !.info.lastDeploy = Trim(r.value)] ELSE ret
    /\ pc' = "PackageProbe"
    /\ UNCHANGED <<config, ssh, error, exitCode>>
    /\ StatusFrame

\* getDeployInfo: if (await ssh.fileExists(packagePath))
PackageProbe ==
    /\ pc = "PackageProbe"
    /\ \E reply \in ExecReplies :
       LET found == SSHFileExists(ssh, reply).value IN
       /\ log' = Append(log, EvA("getDeployInfo", "fileExists", "package.json", found))
       /\ IF found
          THEN pc' = "PackageRead" /\ ret' = ret
          ELSE pc' = "ServiceStatus" /\ ret' = [ret EXCEPT !.returned = TRUE]
    /\ UNCHANGED <<config, ssh, error, exitCode>>
    /\ StatusFrame

\* getDeployInfo: cat package.json, JSON.parse, currentVersion = version;
\* every error is ignored; then return deployInfo
PackageRead ==
    /\ pc = "PackageRead"
    /\ \E o \in ExecOutcomes, content \in PackageContents :
       LET r == SSHExec(ssh, o)
           parsed == JsonParse(content)
       IN
       /\ ~r.ok => content = "not json"
       /\ log' = Append(log, EvA("getDeployInfo", "exec", "cat package.json", r.ok))
       /\ ret' = IF r.ok /\ parsed.ok
                 THEN [ret EXCEPT !.info.currentVersion = parsed.value.version,
                                  !.returned = TRUE]
                 ELSE [ret EXCEPT !.returned = TRUE]
    /\ pc' = "ServiceStatus"
    /\ UNCHANGED <<config, ssh, error, exitCode>>
    /\ StatusFrame

\* await getServiceStatus(ssh, config): every error is ignored; then
\* await ssh.disconnect() and the report is printed
ServiceStatus ==
    /\ pc = "ServiceStatus"
    /\ \E failed \in SUBSET Range(ServiceProbes) :
       log' = log \o ExecEntries("getServiceStatus", ServiceProbes, failed)
                  \o << Ev("showStatus", "disconnect", TRUE) >>
    /\ ssh' = SSHDisconnect(ssh)
    /\ pc' = "StatusReturned"
    /\ UNCHANGED <<config, error, exitCode, ret>>
    /\ StatusFrame

\* the CLI action has returned and nothing keeps the process alive: the
\* process ends with status 0
StatusExit ==
    /\ pc = "StatusReturned"
    /\ ~ssh.connected
    /\ exitCode' = 0
    /\ pc' = "Exited"
    /\ UNCHANGED <<config, ssh, log, error, ret>>
    /\ StatusFrame

StatusNext ==
    \/ StatusLoad
    \/ StatusConnect
    \/ SystemInfo
    \/ MarkerProbe
    \/ MarkerRead
    \/ StatProbe
    \/ PackageProbe
    \/ PackageRead
    \/ ServiceStatus
    \/ StatusExit

StatusSpec == StatusInit /\ [][StatusNext]_vars

(***************************************************************************)
(* The first two stages alone, from every store: which profile is resolved *)
(***************************************************************************)
LoadInit ==
    /\ req \in [env : EnvNames, branch : Branches, force : BOOLEAN, dryRun : BOOLEAN]
    /\ store \in Stores
    /\ pc = "ValidateEnvironment"
    /\ config = NoConfig
    /\ currentBranch = NoBranch
    /\ hasUncommittedChanges = FALSE
    /\ ssh = NoSSH
    /\ log = <<>>
    /\ error = NoError
    /\ stream = NoStream
    /\ exitCode = NoExit
    /\ ret = NoRet

LoadNext ==
    \/ ValidateEnvironment
    \/ LoadProfile

LoadSpec == LoadInit /\ [][LoadNext]_vars

(***************************************************************************)
(* Properties                                                              *)
(***************************************************************************)
\* the run is over: deployProject returned (Complete, SimulateDone) or threw
Terminal == {"Complete", "SimulateDone", "Failed"}

Last(q) == q[Len(q)]

IsPrefix(a, b) == Len(a) <= Len(b) /\ SubSeq(b, 1, Len(a)) = a

\* C1: the session is released exactly once per successful connect by the time
\* executeDeployment exits, whichever later sub-stage fails; it is released
\* zero times when connect fails or BuildLocal fails before connect; at no
\* time is it released more often than it was connected.
C1_ReleaseCountEqualsConnectCount ==
    LET connected == { i \in Ops("connect") : log[i].ok } IN
    /\ ssh.disposed <= ssh.connects
    /\ ssh.connects = Cardinality(connected)
    /\ ssh.connects <= 1
    /\ pc \in Terminal => /\ ssh.disposed = Cardinality(connected)
                          /\ ~ssh.connected

\* C1 witness: Upload failed on a connected session and the run has ended
\* with that session released once.
C1_Witness ==
    /\ pc = "Failed"
    /\ log # <<>> /\ Last(log).stage = "Upload" /\ ~Last(log).ok
    /\ ssh.connects = 1
    /\ ssh.disposed = 1

\* C2: in a run with dryRun = true no session is created and no remote
\* operation (connect, exec, uploadDirectory, uploadFiles) is performed,
\* whatever force, branch and the prompt answers are.
C2_DryRunTouchesNoRemote ==
    req.dryRun =>
        /\ ~ssh.created
        /\ \A i \in 1..Len(log) : log[i].op \notin RemoteOps
        /\ pc \notin {"BuildLocal", "Connect", "BackupMkdir", "BackupCopy", "UploadMkdir",
                      "UploadTransfer", "InstallCd", "InstallCommand", "BuildRemote",
                      "RestartService", "Settle", "Verify", "Finally"}

\* C2 witness: a dry run that went through the whole simulation.
C2_Witness ==
    /\ req.dryRun
    /\ pc = "SimulateDone"
    /\ Cardinality(StageOps("SimulateDeployment")) = 7

\* C3: anything of the Upload stage happens only after both remote commands
\* of Backup were issued and succeeded; once a Backup command has failed,
\* nothing of Upload is ever issued.
C3_UploadOnlyAfterBackupSucceeded ==
    /\ \A u \in 1..Len(log) :
          log[u].stage = "Upload" =>
             \E c \in 1..(u - 1) :
                /\ log[c] = EvA("Backup", "exec", "cp deployPath", TRUE)
                /\ \E m \in 1..(c - 1) :
                      log[m] = EvA("Backup", "exec", "mkdir backupPath", TRUE)
    /\ (\E b \in 1..Len(log) : log[b].stage = "Backup" /\ ~log[b].ok) =>
          /\ \A u \in 1..Len(log) : log[u].stage # "Upload"
          /\ pc \notin {"UploadMkdir", "UploadTransfer"}

\* C3 witness: the copy of Backup failed and the run ended.
C3_Witness ==
    /\ pc = "Failed"
    /\ log # <<>> /\ Last(log) = EvA("Backup", "exec", "cp deployPath", FALSE)

\* the stages whose failure is Fatal, and the errors each of them raises
FatalStages == {"ValidateEnvironment", "LoadProfile", "CheckRepositoryState",
                "ConfirmDeployment", "BuildLocal", "Connect", "Backup", "Upload",
                "InstallAndBuildRemote", "RestartService"}

ExecErrors == {"remote command failed: command failed: stderr",
               "remote command failed: transport error"}

StageErrors(stage) ==
    CASE stage = "ValidateEnvironment"  -> {"invalid environment", "not a git repository"}
      [] stage = "LoadProfile"          -> {"config file missing, run config --init",
                                            "no server config for environment"}
      [] stage = "CheckRepositoryState" -> {"get current branch failed",
                                            "get git status failed",
                                            "deployment cancelled",
                                            "command failed: git checkout",
                                            "command failed: git pull"}
      [] stage = "ConfirmDeployment"    -> {"deployment cancelled"}
      [] stage = "BuildLocal"           -> {"command failed: npm run build"}
      [] stage = "Connect"              -> {"SSH connect failed: network or auth"}
      [] stage = "Upload"               -> ExecErrors \cup
                                           {"directory upload failed: transport error",
                                            "batch upload failed: transport error"}
      [] OTHER                          -> ExecErrors

\* C4: when an operation of a Fatal stage fails, nothing of any later stage
\* is started (the failed operation stays the last one of the run), the run
\* does not reach Complete, and it ends failed with an error of that stage.
C4_FatalAbortsPipeline ==
    \A i \in 1..Len(log) :
        (~log[i].ok /\ log[i].stage \in FatalStages) =>
            /\ i = Len(log)
            /\ pc \in {"Finally", "Failed"}
            /\ error \in StageErrors(log[i].stage)

\* C4 witness: the remote build of InstallAndBuildRemote failed; the run ended.
C4_Witness ==
    /\ pc = "Failed"
    /\ log # <<>> /\ Last(log) = EvA("InstallAndBuildRemote", "exec", "build", FALSE)

\* C5: once Verify is reached, the run completes successfully whether the
\* verify command succeeds or fails; a failed install command or remote build
\* command always makes the run fail.
C5_VerifyWarnsInstallFails ==
    /\ (Entered("Verify") /\ pc \in Terminal) => (pc = "Complete" /\ error = NoError)
    /\ Entered("Verify") => pc \in {"Finally", "Complete"}
    /\ \A i \in StageOps("InstallAndBuildRemote") :
          (log[i].arg \in {"install", "build"} /\ ~log[i].ok) =>
              /\ pc \in {"Finally", "Failed"}
              /\ error # NoError

\* C5 witness: the verify command failed and the run completed.
C5_Witness ==
    /\ pc = "Complete"
    /\ \E i \in StageOps("Verify") : ~log[i].ok

\* C6: with an environment name outside {development, staging, production}
\* the run fails at ValidateEnvironment and loadConfig is never called.
C6_InvalidEnvironmentNoProfileLookup ==
    req.env \notin {"development", "staging", "production"} =>
        /\ Ops("loadConfig") = {}
        /\ ~Entered("LoadProfile")
        /\ pc \in {"ValidateEnvironment", "Failed"}
        /\ pc = "Failed" =>
              /\ error = "invalid environment"
              /\ Last(log) = Ev("ValidateEnvironment", "checkEnv", FALSE)

\* C6 witness: the run for environment "prod" has failed.
C6_Witness ==
    /\ req.env = "prod"
    /\ pc = "Failed"

\* the stage functions of a complete, confirmed, executed run, in call order
ScenarioAStages ==
    << "ValidateEnvironment", "LoadProfile", "CheckRepositoryState", "ConfirmDeployment",
       "BuildLocal", "Connect", "Backup", "Upload", "InstallAndBuildRemote",
       "RestartService", "Verify" >>

\* C7: with force = false and dryRun = false, a clean repository already on
\* the target branch, an affirmative confirmation and no failing operation,
\* the run performs no branch switch and no continuation prompt, asks for
\* confirmation, runs BuildLocal, Connect, Backup, Upload,
\* InstallAndBuildRemote, RestartService, Verify once each in that order, and
\* ends in Complete.
C7_ScenarioA ==
    ( /\ ~req.force /\ ~req.dryRun
      /\ \E i \in 1..Len(log) : log[i] = Ev("CheckRepositoryState", "git status", TRUE)
      /\ ~hasUncommittedChanges
      /\ currentBranch = req.branch
      /\ \A i \in 1..Len(log) : log[i].ok )
    =>
    /\ Ops("git checkout") = {}
    /\ Ops("promptContinue") = {}
    /\ IsPrefix(StageSeq, ScenarioAStages)
    /\ pc # "Failed"
    /\ pc \in Terminal =>
          /\ pc = "Complete"
          /\ StageSeq = ScenarioAStages
          /\ Ops("promptConfirm") # {}

\* C7 witness: such a run has ended, with every profile command present.
C7_Witness ==
    /\ ~req.force /\ ~req.dryRun
    /\ ~hasUncommittedChanges
    /\ currentBranch = req.branch
    /\ \A i \in 1..Len(log) : log[i].ok
    /\ pc = "Complete"
    /\ config.restartCommand # "" /\ config.verifyCommand # ""
    /\ config.buildCommand # "" /\ config.installCommand # ""

\* C8: uncommitted changes, force = false and a declined continuation prompt:
\* the run halts in CheckRepositoryState with the cancellation error, and no
\* session object is ever constructed or connected.
C8_ScenarioB ==
    ( /\ hasUncommittedChanges /\ ~req.force
      /\ \E i \in Ops("promptContinue") : ~log[i].ok )
    =>
    /\ pc = "Failed"
    /\ error = "deployment cancelled"
    /\ Last(log) = Ev("CheckRepositoryState", "promptContinue", FALSE)
    /\ ~ssh.created
    /\ Ops("connect") = {}
    /\ \A i \in 1..Len(log) :
          log[i].stage \in {"ValidateEnvironment", "LoadProfile", "CheckRepositoryState"}

\* C8 witness: the operator declined the continuation prompt.
C8_Witness ==
    /\ hasUncommittedChanges /\ ~req.force
    /\ \E i \in Ops("promptContinue") : ~log[i].ok
    /\ pc = "Failed"

\* the run is past the point where confirmDeployment is called or skipped
PastConfirmGate ==
    \/ Entered("ConfirmDeployment")
    \/ Entered("SimulateDeployment")
    \/ Entered("BuildLocal")
    \/ pc \in {"SimulateDeployment", "BuildLocal"}

\* C9: ConfirmDeployment is skipped exactly when force or dryRun is set; when
\* neither is set, BuildLocal (the start of ExecuteDeployment) is reached only
\* after an affirmative answer; a declined confirmation ends the run with the
\* cancellation error before any local build and any remote action.
C9_ConfirmationGate ==
    IF req.force \/ req.dryRun
    THEN /\ ~Entered("ConfirmDeployment")
         /\ Ops("promptConfirm") = {}
         /\ pc # "ConfirmDeployment"
    ELSE /\ PastConfirmGate => Entered("ConfirmDeployment")
         /\ (Entered("BuildLocal") \/ pc = "BuildLocal") =>
               \E i \in Ops("promptConfirm") :
                  /\ log[i].ok
                  /\ \A j \in Entries("BuildLocal") : i < j
         /\ (\E i \in Ops("promptConfirm") : ~log[i].ok) =>
               /\ pc = "Failed"
               /\ error = "deployment cancelled"
               /\ Ops("local build") = {}
               /\ ~Entered("BuildLocal")
               /\ ~ssh.created
               /\ \A i \in 1..Len(log) : log[i].op \notin RemoteOps

\* C9 witness: the confirmation was declined.
C9_Witness ==
    /\ ~req.force /\ ~req.dryRun
    /\ \E i \in Ops("promptConfirm") : ~log[i].ok
    /\ pc = "Failed"

\* getCurrentBranch and getGitStatus have returned
Captured == \E i \in 1..Len(log) : log[i] = Ev("CheckRepositoryState", "git status", TRUE)

\* C10: in CheckRepositoryState the continuation prompt is issued if and only
\* if the captured state has uncommitted changes and force is false; when it
\* is issued it precedes every branch switch and pull; declining it is Fatal
\* with the cancellation error, no branch switch or pull having been done.
C10_ContinuationPrompt ==
    /\ (Ops("promptContinue") # {} \/ pc = "UncommittedPrompt")
          <=> (Captured /\ hasUncommittedChanges /\ ~req.force)
    /\ Cardinality(Ops("promptContinue")) <= 1
    /\ \A i \in Ops("promptContinue") :
          \A j \in Ops("git checkout") \cup Ops("git pull") : i < j
    /\ pc = "UncommittedPrompt" => (Ops("git checkout") \cup Ops("git pull")) = {}
    /\ (\E i \in Ops("promptContinue") : ~log[i].ok) =>
          /\ pc = "Failed"
          /\ error = "deployment cancelled"
          /\ Ops("git checkout") = {}
          /\ Ops("git pull") = {}

\* C10 witness: the prompt was declined on a branch other than the target,
\* where a switch would have followed.
C10_Witness ==
    /\ \E i \in Ops("promptContinue") : ~log[i].ok
    /\ currentBranch # req.branch
    /\ pc = "Failed"

\* the uncommitted-changes check is passed: captured, and the prompt, when
\* one was needed, was answered yes
PassedChangesCheck ==
    /\ Captured
    /\ pc # "UncommittedPrompt"
    /\ \A i \in Ops("promptContinue") : log[i].ok

\* the stages that follow CheckRepositoryState
LaterStages == {"ConfirmDeployment", "SimulateDeployment", "BuildLocal", "Connect",
                "Backup", "Upload", "InstallAndBuildRemote", "RestartService", "Verify"}

\* C11: in a run that passed the uncommitted-changes check, git checkout is
\* run if and only if the captured branch differs from the target branch, it
\* comes before the pull, the pull has succeeded before anything of a later
\* stage, and a failed checkout or pull ends the run failed with its error.
C11_SwitchThenPull ==
    LET co    == Ops("git checkout")
        pu    == Ops("git pull")
        later == { k \in 1..Len(log) : log[k].stage \in LaterStages }
        differ == currentBranch # req.branch
    IN
    /\ (co # {} \/ pc = "GitCheckout") <=> (PassedChangesCheck /\ differ)
    /\ Cardinality(co) <= 1 /\ Cardinality(pu) <= 1
    /\ \A j \in pu :
          /\ PassedChangesCheck
          /\ differ => \E i \in co : i < j /\ log[i].ok
          /\ ~log[j].ok => /\ pc = "Failed" /\ j = Len(log)
                           /\ error = "command failed: git pull"
    /\ (pc \in {"ConfirmDeployment", "SimulateDeployment", "BuildLocal"} \/ later # {}) =>
          \E j \in pu : log[j].ok /\ \A k \in later : j < k
    /\ \A i \in co :
          ~log[i].ok => /\ pc = "Failed" /\ i = Len(log)
                        /\ error = "command failed: git checkout"

\* C11 witness: the branch was switched, then the pull failed.
C11_Witness ==
    /\ pc = "Failed"
    /\ \E i \in Ops("git checkout") : log[i].ok
    /\ \E j \in Ops("git pull") : ~log[j].ok

\* the servers of the store that the environment string selects: the name
\* contains it or the environment field equals it
Selected(env) ==
    { k \in 1..Len(store.servers) :
        \/ \E a \in 1..Len(store.servers[k].name) :
              \E b \in a..Len(store.servers[k].name) :
                 SubSeq(store.servers[k].name, a, b) = env
        \/ store.servers[k].environment = env }

\* C19: LoadProfile resolves the environment to the first server, in store
\* order, whose name contains the environment string or whose environment
\* field equals it; with the store file missing or no such server it fails
\* and the run goes no further.
C19_FirstMatchingServer ==
    \A i \in Ops("loadConfig") :
        IF store.exists /\ Selected(req.env) # {}
        THEN /\ log[i].ok
             /\ \E k \in Selected(req.env) :
                   /\ \A j \in Selected(req.env) : k <= j
                   /\ log[i].arg = store.servers[k].name
             /\ config \in Profiles
             /\ pc = "CheckRepositoryState" /\ error = NoError
        ELSE /\ ~log[i].ok
             /\ i = Len(log)
             /\ pc = "Failed"
             /\ config = NoConfig
             /\ error = IF store.exists THEN "no server config for environment"
                        ELSE "config file missing, run config --init"

\* C19 witness: two servers match the environment, in a store of two.
C19_Witness ==
    /\ Cardinality(Selected(req.env)) = 2
    /\ \E i \in Ops("loadConfig") : log[i].ok

\* the steps simulateDeployment has reported, in order
Simulated ==
    LET e == SelectSeq(log, LAMBDA x : x.stage = "SimulateDeployment" /\ x.op = "simulate")
    IN  [i \in 1..Len(e) |-> e[i].arg]

\* the stages of executeDeployment
ExecuteStages == {"BuildLocal", "Connect", "Backup", "Upload", "InstallAndBuildRemote",
                  "RestartService", "Verify"}

\* C12: once entered, SimulateDeployment reports build, connect, backup,
\* upload, install, restart, verify in that order, each as a success; it has
\* no failing step and can always take its next step until the seven are
\* reported; deployProject then returns successfully (exit status 0) without
\* anything of ExecuteDeployment.
C12_SimulationSevenStepsThenSuccess ==
    (pc \in {"SimulateDeployment", "SimulateDone"}) =>
        /\ IsPrefix(Simulated,
                    << "build", "connect", "backup", "upload", "install", "restart", "verify" >>)
        /\ \A i \in StageOps("SimulateDeployment") : log[i].ok
        /\ error = NoError
        /\ \A i \in 1..Len(log) : log[i].stage \notin ExecuteStages
        /\ ~ssh.created
        /\ pc = "SimulateDeployment" => (Len(Simulated) < 7 /\ ENABLED SimulateDeployment)
        /\ pc = "SimulateDone" => (Len(Simulated) = 7 /\ exitCode \in {NoExit, 0})

\* C12 witness: the simulation is over and the process has ended.
C12_Witness ==
    /\ pc = "SimulateDone"
    /\ Len(Simulated) = 7
    /\ exitCode = 0

\* C13: an empty command string means the stage is skipped, not failed: with
\* its command string(s) empty, each of BuildLocal, InstallAndBuildRemote
\* (install and remote build commands both empty), RestartService and Verify
\* issues no local or remote command, so that nothing of it can fail.
C13_EmptyCommandSkipsStage ==
    config # NoConfig =>
        /\ config.buildCommand = "" => StageOps("BuildLocal") = {}
        /\ (config.installCommand = "" /\ config.buildCommandRemote = "") =>
              StageOps("InstallAndBuildRemote") = {}
        /\ config.installCommand = "" =>
              \A i \in StageOps("InstallAndBuildRemote") : log[i].arg # "install"
        /\ config.buildCommandRemote = "" =>
              \A i \in StageOps("InstallAndBuildRemote") : log[i].arg # "build"
        /\ config.restartCommand = "" => StageOps("RestartService") = {}
        /\ config.verifyCommand = "" => StageOps("Verify") = {}

(***************************************************************************)
(* One session under any sequence of calls (SessionSpec)                   *)
(***************************************************************************)
SuccessfulConnects == Cardinality({ i \in DOMAIN log : log[i].op = "connect" /\ log[i].ok })

\* C15: disconnect raises nothing in any session state; on a session that is
\* not connected (never connected, connect failed, or already disconnected)
\* it disposes nothing, on a connected one it disposes once; and the number
\* of disposals never exceeds the number of successful connects.
C15_DisconnectIdempotent ==
    pc = "Session" =>
        /\ ssh.disposed <= SuccessfulConnects
        /\ ssh.connects = SuccessfulConnects
        /\ ret.op = "disconnect" =>
              /\ ~ret.raised
              /\ ~ssh.connected
              /\ ret.disposedNow = (IF ret.wasConnected THEN 1 ELSE 0)

\* a disconnect right after a failed connect and an earlier disconnect of the
\* same session, with nothing disposed by it
C15_Witness ==
    /\ pc = "Session" /\ Len(log) = 4
    /\ log[1].op = "connect" /\ log[1].ok
    /\ log[2].op = "disconnect"
    /\ log[3].op = "connect" /\ ~log[3].ok
    /\ ret.op = "disconnect" /\ ~ret.wasConnected /\ ret.disposedNow = 0
    /\ ssh.disposed = 1

\* C16: fileExists never raises and returns a boolean in every session state
\* and for every answer of the remote command; it returns false whenever the
\* probe was not issued, the transport failed or the exit status was not
\* zero, and true only when the probe answered "exists".
C16_FileExistsNeverRaises ==
    (pc = "Session" /\ ret.op = "fileExists") =>
        /\ ~ret.raised
        /\ ret.value \in BOOLEAN
        /\ (~ret.wasConnected \/ ret.reply.threw \/ ret.reply.code # 0) => ret.value = FALSE
        /\ ret.value = TRUE =>
              /\ ret.wasConnected /\ ~ret.reply.threw /\ ret.reply.code = 0
              /\ ret.reply.stdout = "exists\n"

\* fileExists answered false on a disconnected session, after having answered
\* on the connected one
C16_Witness ==
    /\ pc = "Session" /\ Len(log) = 4
    /\ log[1].op = "connect" /\ log[1].ok
    /\ log[2].op = "fileExists"
    /\ log[3].op = "disconnect"
    /\ ret.op = "fileExists" /\ ~ret.wasConnected /\ ret.value = FALSE /\ ~ret.raised

\* C17: on a connected session exec returns iff the remote exit status is
\* zero, and then returns the command's stdout; a non-zero exit status raises
\* an error whose message carries the captured stderr, and a raised exec
\* returns no value.
C17_ExecReturnsIffExitZero ==
    (pc = "Session" /\ ret.op = "exec" /\ ret.wasConnected) =>
        /\ ~ret.raised <=> (~ret.reply.threw /\ ret.reply.code = 0)
        /\ ~ret.raised => (ret.value = ret.reply.stdout /\ ret.err = NoError)
        /\ (~ret.reply.threw /\ ret.reply.code # 0) =>
              /\ ret.raised
              /\ Includes(ret.err, ret.reply.stderr)
              /\ Includes(ret.err, "command failed")
        /\ ret.raised => (ret.value = "" /\ ret.err # NoError)

\* exec on a connected session answered with exit status 127 and a non-empty
\* stderr
C17_Witness ==
    /\ pc = "Session" /\ ret.op = "exec" /\ ret.wasConnected
    /\ ret.reply.code = 127 /\ ret.reply.stderr = "No such file" /\ ret.raised


(***************************************************************************)
(* The logs command (LogsSpec)                                             *)
(***************************************************************************)
StreamStarted == stream # NoStream
SigintExits   == { i \in DOMAIN log : log[i] = Ev("SIGINT", "exit", TRUE) }

\* C18: in log-following mode, once the stream is started, every way the
\* mode ends leaves the session closed: after the remote stream closed the
\* session is not connected; the interrupt handler closes the stream and
\* disconnects the session before it exits the process; and the process has
\* never ended with the session still connected.
C18_FollowModeClosesSession ==
    StreamStarted =>
        /\ stream = "closed" => (~ssh.connected /\ ssh.disposed = 1)
        /\ exitCode # NoExit => (stream = "closed" /\ ~ssh.connected)
        /\ \A i \in SigintExits :
              /\ i = Len(log)
              /\ \E j \in 1..(i - 1) : \E k \in (j + 1)..(i - 1) :
                    /\ log[j] = Ev("SIGINT", "stream.close", TRUE)
                    /\ log[k] = Ev("SIGINT", "disconnect", TRUE)

\* the interrupt arrived while the stream was open and the process exited
C18_Witness ==
    /\ StreamStarted /\ pc = "Exited" /\ SigintExits # {}
    /\ \A i \in DOMAIN log : log[i].op # "stream closed"
    /\ ssh.disposed = 1 /\ ~ssh.connected

\* C14 (as stated, for the logs command): when the logs command ended after
\* showLogs met an error, the process exit status is not zero.
C14_FatalLogsErrorExitsNonZero ==
    (pc = "Exited" /\ error # NoError /\ ~StreamStarted) => exitCode # 0


(***************************************************************************)
(* Dry run (Spec)                                                          *)
(***************************************************************************)
\* C20 (as stated): a run with dryRun set executes no branch switch, no
\* pull, no local build command and no remote operation.
C20_DryRunMutatesNothing ==
    req.dryRun =>
        \A i \in DOMAIN log :
            /\ log[i].op \notin {"git checkout", "git pull", "local build"}
            /\ log[i].op \notin RemoteOps


(***************************************************************************)
(* Failures before any side effect (Spec)                                  *)
(***************************************************************************)
SideEffectOps == {"promptContinue", "promptConfirm", "git checkout", "git pull",
                  "local build"} \cup RemoteOps

\* C21: when the run has failed with a validation error (bad environment,
\* not a repository) or a config error (missing store, no matching profile),
\* nothing but the two checks has happened: no prompt, no branch switch, no
\* pull, no local build, no session created and no remote operation.
C21_EarlyFailureHasNoSideEffect ==
    error \in StageErrors("ValidateEnvironment") \cup StageErrors("LoadProfile") =>
        /\ ssh = NoSSH
        /\ config = NoConfig
        /\ \A i \in DOMAIN log :
              /\ log[i].op \notin SideEffectOps
              /\ log[i].stage \in {"ValidateEnvironment", "LoadProfile"}

\* a run that failed because no profile matches the environment
C21_Witness ==
    /\ pc = "Failed" /\ error = "no server config for environment"
    /\ Last(log) = EvA("LoadProfile", "loadConfig", "", FALSE)
    /\ exitCode = 1


(***************************************************************************)
(* The profile store under config commands (ConfigSpec)                    *)
(***************************************************************************)
Names(st) == { st.servers[i].name : i \in 1..Len(st.servers) }

ProfileOf(st, name) == Cfg(st.servers[IndexOf(st.servers, name)])

OthersKept(before, after, name) ==
    \A n \in Names(before) \ {name} :
        n \in Names(after) /\ ProfileOf(after, n) = ProfileOf(before, n)

\* C22 (as stated): every profile stored by addServer has exactly one
\* credential kind set, a password or private-key material.
C22_ExactlyOneCredential ==
    (ret.op = "addServer" /\ ret.saved) =>
        LET p == ProfileOf(store, ret.name) IN
        (p.password # Undefined) # (p.privateKey # Undefined)

\* C30: saveServerConfig(name, cfg) makes name map to cfg, adds no other
\* name and leaves every other server's profile unchanged; removeServer(name)
\* removes name, and nothing else, when the store file exists, holds name and
\* the operator confirms, and otherwise leaves the store unchanged.
C30_StoreUpdatesTouchOnlyNamedEntry ==
    /\ (ret.op = "addServer" /\ ret.saved) =>
          /\ store.exists
          /\ Names(store) = Names(ret.before) \cup {ret.name}
          /\ ProfileOf(store, ret.name) = ret.cfg
          /\ OthersKept(ret.before, store, ret.name)
          /\ Distinct(store.servers)
    /\ ret.op = "removeServer" =>
          IF ret.prompted /\ ret.confirmed /\ ret.saved
          THEN /\ Names(store) = Names(ret.before) \ {ret.name}
               /\ OthersKept(ret.before, store, ret.name)
          ELSE store = ret.before

\* a profile was saved under a name already present in a store of two
\* servers, after a removal that the operator declined
C30_Witness ==
    /\ Len(log) = 2 /\ log[1].op = "removeServer"
    /\ ret.op = "addServer" /\ ret.saved
    /\ Len(ret.before.servers) = 2 /\ ret.name \in Names(ret.before)
    /\ ProfileOf(ret.before, ret.name) # ret.cfg


(***************************************************************************)
(* Restart, settle wait and Verify (Spec)                                  *)
(***************************************************************************)
RestartOk     == EvA("RestartService", "exec", "restart", TRUE)
RestartFailed == EvA("RestartService", "exec", "restart", FALSE)
SettleWait    == EvA("RestartService", "wait", "settle", TRUE)

\* C23: the settle wait directly follows a successful restart command and
\* precedes everything of Verify; while the wait lasts Verify has not
\* started; after a failed restart command there is neither a settle wait
\* nor anything of Verify.
C23_SettleWaitBeforeVerify ==
    IF pc \in {"ValidateEnvironment", "LoadProfile", "CheckRepositoryState"}
       \/ config = NoConfig \/ config.restartCommand = ""
    THEN \A i \in DOMAIN log : log[i].op # "wait"
    ELSE /\ \A i \in DOMAIN log :
              /\ log[i] = RestartOk =>
                    /\ i < Len(log) => log[i + 1] = SettleWait
                    /\ i = Len(log) => pc = "Settle"
              /\ log[i].op = "wait" => (log[i] = SettleWait /\ i > 1 /\ log[i - 1] = RestartOk)
              /\ log[i] = RestartFailed =>
                    \A j \in DOMAIN log : log[j].op # "wait" /\ log[j].stage # "Verify"
              /\ log[i].stage = "Verify" =>
                    \E w \in 1..(i - 1) : log[w] = SettleWait
         /\ pc = "Settle" => (Last(log) = RestartOk /\ ~Entered("Verify"))

\* the restart command succeeded, the wait was made and the verify command
\* was then issued
C23_Witness ==
    /\ pc = "Complete"
    /\ \E i \in DOMAIN log :
          /\ log[i] = RestartOk /\ log[i + 1] = SettleWait
          /\ \E v \in (i + 2)..Len(log) : log[v].stage = "Verify" /\ log[v].op = "exec"


(***************************************************************************)
(* The Upload stage (Spec)                                                 *)
(***************************************************************************)
Transfers == { i \in DOMAIN log :
                 log[i].stage = "Upload" /\ log[i].op \in {"uploadDirectory", "uploadFiles"} }

\* C24 (as stated): the transfer of Upload comes after the successful
\* creation of deployPath, there is at most one transfer per run, it is the
\* directory synchronisation exactly when the upload mode is whole-tree, and
\* after a failed directory creation or a failed transfer no later stage
\* starts.
C24_UploadEnsuresPathThenOneFatalTransfer ==
    /\ Cardinality(Transfers) <= 1
    /\ \A t \in Transfers :
          /\ t > 1 /\ log[t - 1] = EvA("Upload", "exec", "mkdir deployPath", TRUE)
          /\ log[t].op = "uploadDirectory" <=> config.uploadType = "rsync"
          /\ (~log[t].ok \/ log[t].arg = "incomplete") => ~Entered("InstallAndBuildRemote")
    /\ (\E m \in DOMAIN log : log[m] = EvA("Upload", "exec", "mkdir deployPath", FALSE)) =>
          (Transfers = {} /\ ~Entered("InstallAndBuildRemote"))


(***************************************************************************)
(* The exclusion predicate of the whole-tree upload (ValidateSpec)         *)
(***************************************************************************)
ItemName == req.parts[Len(req.parts)]

\* C25: an item is rejected if and only if its base name starts with '.' or
\* is node_modules; .git is among the rejected, every other item is accepted.
C25_ExclusionPredicate ==
    pc = "Validated" =>
        /\ ~ret.accepted <=> (SubSeq(ItemName, 1, 1) = "." \/ ItemName = "node_modules")
        /\ ItemName = ".git" => ~ret.accepted

\* a dotfile below an accepted directory was asked about and rejected
C25_Witness ==
    /\ pc = "Validated" /\ req.itemPath = "dist/.env" /\ ~ret.accepted


(***************************************************************************)
(* The status command (StatusSpec)                                         *)
(***************************************************************************)
MarkerFields == JsonParse("marker json").value

PackageWasRead ==
    \E i \in DOMAIN log : log[i] = EvA("getDeployInfo", "exec", "cat package.json", TRUE)

StatSucceeded ==
    \E i \in DOMAIN log : log[i] = EvA("getDeployInfo", "exec", "stat deployPath", TRUE)

\* C26 (as stated): when getDeployInfo has returned after reading a marker
\* that holds valid JSON, each field of the marker is in the returned deploy
\* info unless a later probe of the call set that field.
C26_MarkerFieldsReturned ==
    (ret.op = "getDeployInfo" /\ ret.returned /\ ret.marker = "marker json") =>
        /\ ret.info.deployedBy = MarkerFields.deployedBy
        /\ ~PackageWasRead => ret.info.currentVersion = MarkerFields.currentVersion
        /\ ~StatSucceeded => ret.info.lastDeploy = MarkerFields.lastDeploy

ConnectedOnce == \E i \in DOMAIN log : log[i].op = "connect" /\ log[i].ok

\* C27 (as stated, for the status command): once showStatus has returned on
\* a path where connect succeeded, the session is not connected.
C27_StatusEndsDisconnected ==
    (pc \in {"StatusReturned", "Exited"} /\ ConnectedOnce) => ~ssh.connected


(***************************************************************************)
(* Stream close and interrupt in log-following mode (LogsSpec)             *)
(***************************************************************************)
StreamClosedEvents == { i \in DOMAIN log : log[i] = Ev("close", "stream closed", TRUE) }
Disconnects        == { i \in DOMAIN log : log[i].op = "disconnect" }

\* C28: in log-following mode, whichever of the stream's close handler and
\* the interrupt handler ran, in either order or only one of them, the
\* connection has been disposed exactly once, never twice, and the session is
\* not connected; before either ran nothing was disposed.
C28_FollowModeDisposesOnce ==
    req.follow =>
        /\ ssh.disposed <= 1
        /\ ssh.disposed <= ssh.connects
        /\ (StreamClosedEvents # {} \/ SigintExits # {}) =>
              (ssh.disposed = 1 /\ ~ssh.connected /\ Disconnects # {})
        /\ (pc = "Following" /\ stream = "open") => (ssh.disposed = 0 /\ ssh.connected)

\* the remote stream closed first, then the interrupt arrived: two handlers
\* called disconnect, one disposal
C28_Witness ==
    /\ req.follow /\ pc = "Exited"
    /\ \E c \in StreamClosedEvents : \E x \in SigintExits : c < x
    /\ Cardinality(Disconnects) = 2
    /\ ssh.disposed = 1 /\ ~ssh.connected


(***************************************************************************)
(* Remote operations need a connected session (SessionOrDeploySpec)        *)
(***************************************************************************)
RemoteCalls == {"exec"} \cup TransferOps

\* C29: exec, uploadFile, uploadFiles, uploadDirectory and downloadFile,
\* called on a session that is not connected (never connected, connect
\* failed, or disconnected), raise the not-connected error and do not reach
\* the remote host, and on a connected session they do reach it; and once
\* executeDeployment has exited, by any path, its session is not connected.
C29_RemoteOpsOnlyWhileConnected ==
    /\ (pc = "Session" /\ ret.op \in RemoteCalls) =>
          /\ ~ret.wasConnected => (ret.raised /\ ~ret.issued /\ ret.err = "SSH not connected")
          /\ ret.wasConnected => ret.issued
          /\ ssh.connected = ret.wasConnected
    /\ pc \in Terminal => ~ssh.connected
    /\ (pc \in Terminal /\ ssh.created) => ssh.disposed = ssh.connects

\* a download attempted on a session that was connected and then
\* disconnected
C29_Witness ==
    /\ pc = "Session" /\ Len(log) = 3
    /\ log[1] = Ev("Session", "connect", TRUE)
    /\ log[2] = Ev("Session", "disconnect", TRUE)
    /\ ret.op = "downloadFile" /\ ret.raised /\ ~ret.issued


(***************************************************************************)
(* initConfig resets the profile store (ConfigSpec)                        *)
(***************************************************************************)
\* C31: right after initConfig has written its files, and before the
\* question about a first server is answered, the store file exists and
\* holds no server, whatever it held before; resolving a profile from it
\* fails for every environment.
C31_InitConfigResetsStore ==
    pc = "InitPrompt" =>
        /\ ret.op = "initConfig" /\ ret.saved
        /\ store.exists /\ store.servers = << >>
        /\ \A env \in EnvNames :
              /\ ~LoadConfig(store, env).ok
              /\ LoadConfig(store, env).err = "no server config for environment"

\* initConfig has just overwritten a store of two servers, one of which
\* resolved for staging
C31_Witness ==
    /\ pc = "InitPrompt"
    /\ Len(ret.before.servers) = 2
    /\ LoadConfig(ret.before, "staging").ok
    /\ ~LoadConfig(store, "staging").ok

====
